---- MODULE Spec2Model ----
(***************************************************************************)
(* State-machine model of the security core of the Urban Mobility backend: *)
(* field encryption (Controllers/encryption.py), salted credential hashing *)
(* (Controllers/hashing.py), the role hierarchy and session principal      *)
(* (Controllers/authorization.py), authentication (Controllers/auth.py),   *)
(* user seeding (seed_users.py) and the audit log (Controllers/logger.py). *)
(*                                                                         *)
(* Representation.  A Python str is a sequence of code points; a bytes     *)
(* object is a sequence of numbers in 0..255.  Python's None is the value  *)
(* None below, which is no string because -1 is no code point.  A call     *)
(* returns a record [exc, val]: exc = "none" when the call returned val,   *)
(* otherwise the name of the exception that left the call.                 *)
(***************************************************************************)
EXTENDS Integers, Sequences, FiniteSets, TLC

VARIABLES
    key_file,        \* data/encryption.key: NoKey while the file is absent, else the key
    cipher_suite,    \* encryption._cipher_suite: NoKey (None) or the loaded key
    last_enc,        \* the latest encrypt_field call: [arg, exc, val, cs]
    last_dec,        \* the latest decrypt_field call since that encrypt_field call
    hash_prev,       \* the hashing.hash_password call before the latest one
    hash_last,       \* the latest hashing.hash_password call: [args, exc, val]
    users,           \* the rows of the users table, in rowid order
    LoggedUserRole,  \* authorization.LoggedUserRole: NoRole (None) or a UserRole
    logged_in_username, \* auth._logged_in_username: None or a username
    log_key_file,    \* logs/log.key: NoKey while the file is absent, else the key
    log,             \* logs/log.txt: its lines, each without the final newline
    ret,             \* the latest call into auth.py / authorization.py / logger.py
    LoggedUserName,  \* authorization.LoggedUserName: None or a username
    written,         \* the log_event calls so far: [entry, suspicious] of each
    corrupted,       \* the line of logs/log.txt damaged on disk, 0 if none
    travellers,      \* the rows of the travellers table
    scooters,        \* the rows of the scooters table
    backups,         \* the backups table: whether it exists, and its rows
    backup_files,    \* the files under backups/: [path, zip] of each
    pc               \* where main() is: "boot", "login", "menu" or "exit"

probeVars == <<last_enc, last_dec, hash_prev, hash_last>>
backupVars == <<travellers, scooters, backups, backup_files>>
sessionVars == <<LoggedUserName, written, corrupted, backupVars, pc>>
authVars == <<users, LoggedUserRole, logged_in_username, log_key_file, log, ret, sessionVars>>
vars == <<key_file, cipher_suite, last_enc, last_dec, hash_prev, hash_last,
          users, LoggedUserRole, logged_in_username, log_key_file, log, ret,
          LoggedUserName, written, corrupted, travellers, scooters, backups,
          backup_files, pc>>

(***************************************************************************)
(* Bounds.                                                                 *)
(***************************************************************************)
NumKeys == 2         \* keys Fernet.generate_key() may return
MaxPlainLen == 1     \* longest plaintext handed to encrypt_field
MaxLog == 1          \* lines the audit log may hold while logins are made
MaxEvents == 2       \* log_event calls made when the log itself is examined

None == <<-1>>
NoKey == 0
Keys == 1..NumKeys
IVs == {1, 2}        \* initialisation vectors Fernet.encrypt() may draw

Ok(v) == [exc |-> "none", val |-> v]
Raise(e) == [exc |-> e, val |-> None]

(***************************************************************************)
(* Strings.                                                                *)
(***************************************************************************)
RECURSIVE SeqsUpTo(_, _)
SeqsUpTo(S, n) ==
    IF n = 0 THEN {<<>>}
    ELSE LET shorter == SeqsUpTo(S, n - 1)
         IN  shorter \cup {Append(s, c) : s \in {t \in shorter : Len(t) = n - 1}, c \in S}

\* the concatenation of the sequences of ss, by halves
RECURSIVE Flatten(_)
Flatten(ss) ==
    IF Len(ss) = 0 THEN <<>>
    ELSE IF Len(ss) = 1 THEN ss[1]
    ELSE LET h == Len(ss) \div 2
         IN  Flatten(SubSeq(ss, 1, h)) \o Flatten(SubSeq(ss, h + 1, Len(ss)))

\* str.encode('utf-8') for code points below 2048
Utf8Char(c) == IF c < 128 THEN <<c>> ELSE <<192 + (c \div 64), 128 + (c % 64)>>

Utf8Encode(s) == Flatten([i \in 1..Len(s) |-> Utf8Char(s[i])])

\* bytes.decode('utf-8') for one- and two-byte sequences: every lead byte of a
\* two-byte sequence is followed by a continuation byte, every continuation
\* byte follows such a lead byte; anything else is a UnicodeDecodeError
IsCont(x) == x >= 128 /\ x <= 191
IsLead2(x) == x >= 194 /\ x <= 223

Utf8Valid(b) ==
    \A i \in 1..Len(b) :
        \/ b[i] < 128
        \/ IsLead2(b[i]) /\ i < Len(b) /\ IsCont(b[i + 1])
        \/ IsCont(b[i]) /\ i > 1 /\ IsLead2(b[i - 1])

\* the code point of the sequence that starts at b[i]
Utf8CodePoint(b, i) ==
    IF b[i] < 128 THEN b[i] ELSE (b[i] - 192) * 64 + (b[i + 1] - 128)

\* the code points of the sequences of b that start at the positions starts
Utf8CodePoints(b, starts) == [k \in 1..Len(starts) |-> Utf8CodePoint(b, starts[k])]

Utf8Decode(b) ==
    IF ~Utf8Valid(b) THEN Raise("UnicodeDecodeError")
    ELSE Ok(Utf8CodePoints(b, SelectSeq([i \in 1..Len(b) |-> i], LAMBDA i : ~IsCont(b[i]))))

(***************************************************************************)
(* Base64 (Python's base64 module over binascii).                          *)
(***************************************************************************)
PAD == 61            \* '='

\* the standard alphabet: A-Z a-z 0-9 + /
StdChar(v) ==
    IF v < 26 THEN 65 + v
    ELSE IF v < 52 THEN 97 + (v - 26)
    ELSE IF v < 62 THEN 48 + (v - 52)
    ELSE IF v = 62 THEN 43 ELSE 47

\* binascii's table_a2b_base64: 64 stands for "not in the alphabet"
StdVal(c) ==
    IF c >= 65 /\ c <= 90 THEN c - 65
    ELSE IF c >= 97 /\ c <= 122 THEN c - 71
    ELSE IF c >= 48 /\ c <= 57 THEN c + 4
    ELSE IF c = 43 THEN 62
    ELSE IF c = 47 THEN 63
    ELSE 64

\* binascii.b2a_base64(newline=False): every three bytes give four characters
\* of six bits each, a last group of one or two bytes is filled up with '='
ByteAt(b, i) == IF i <= Len(b) THEN b[i] ELSE 0

\* character r (0..3) of the group that starts at byte i
EncodeChar(b, i, r) ==
    IF r = 0 THEN StdChar(ByteAt(b, i) \div 4)
    ELSE IF r = 1 THEN StdChar((ByteAt(b, i) % 4) * 16 + (ByteAt(b, i + 1) \div 16))
    ELSE IF r = 2 THEN
        IF i + 1 > Len(b) THEN PAD
        ELSE StdChar((ByteAt(b, i + 1) % 16) * 4 + (ByteAt(b, i + 2) \div 64))
    ELSE IF i + 2 > Len(b) THEN PAD ELSE StdChar(ByteAt(b, i + 2) % 64)

b64encode(b) ==
    [k \in 1..(4 * ((Len(b) + 2) \div 3)) |-> EncodeChar(b, 3 * ((k - 1) \div 4) + 1, (k - 1) % 4)]

IsData(c) == StdVal(c) < 64

\* binascii.a2b_base64 with strict_mode off, as base64.b64decode(validate=False)
\* calls it.  Its loop skips every character outside the alphabet, counts the
\* alphabet characters in quad_pos (modulo 4) and the '=' since the last
\* alphabet character in pads, and stops at the first '=' that completes a pad
\* sequence (quad_pos >= 2 and quad_pos + pads >= 4), whatever follows.  At the
\* end of the data without such a stop, quad_pos # 0 is an error.

\* quad_pos when the loop is at data[i]
QuadPosAt(data, i) == Len(SelectSeq(SubSeq(data, 1, i - 1), IsData)) % 4

\* pads once the loop has read data[i], where quad_pos >= 2
PadsAt(data, i) ==
    Cardinality({j \in 1..i : data[j] = PAD /\ \A m \in j..i : ~IsData(data[m])})

\* the positions at which the loop would stop
PadStops(data) ==
    {i \in 1..Len(data) :
        /\ data[i] = PAD
        /\ QuadPosAt(data, i) >= 2
        /\ QuadPosAt(data, i) + PadsAt(data, i) >= 4}

\* the least number of S, 0 for the empty set
LeastOrZero(S) == IF S = {} THEN 0 ELSE CHOOSE i \in S : \A j \in S : i <= j

\* the bytes of the alphabet characters chars, three for every four and one
\* or two for a last group of two or three
DecodeQuads(chars) ==
    [j \in 1..(3 * (Len(chars) \div 4) + (IF Len(chars) % 4 = 0 THEN 0 ELSE (Len(chars) % 4) - 1)) |->
        IF (j - 1) % 3 = 0 THEN
            StdVal(chars[4 * ((j - 1) \div 3) + 1]) * 4
                + (StdVal(chars[4 * ((j - 1) \div 3) + 2]) \div 16)
        ELSE IF (j - 1) % 3 = 1 THEN
            (StdVal(chars[4 * ((j - 1) \div 3) + 2]) % 16) * 16
                + (StdVal(chars[4 * ((j - 1) \div 3) + 3]) \div 4)
        ELSE (StdVal(chars[4 * ((j - 1) \div 3) + 3]) % 4) * 64
                + StdVal(chars[4 * ((j - 1) \div 3) + 4])]

\* the result for the alphabet characters chars read before the loop ended
a2b_result(chars, stopped) ==
    IF ~stopped /\ Len(chars) % 4 # 0 THEN Raise("binascii.Error")
    ELSE Ok(DecodeQuads(chars))

\* the loop ending at position stop, at the end of data if stop = 0
a2b_base64(data, stop) ==
    a2b_result(SelectSeq(SubSeq(data, 1, IF stop = 0 THEN Len(data) ELSE stop - 1), IsData),
               stop # 0)

b64decode(data) == a2b_base64(data, LeastOrZero(PadStops(data)))

\* base64.urlsafe_b64encode: b64encode, then '+' -> '-' and '/' -> '_'
urlsafe_b64encode(b) ==
    LET t == b64encode(b)
    IN  [i \in 1..Len(t) |-> IF t[i] = 43 THEN 45 ELSE IF t[i] = 47 THEN 95 ELSE t[i]]

\* base64.urlsafe_b64decode: '-' -> '+' and '_' -> '/', then b64decode
urlsafe_b64decode(t) ==
    b64decode([i \in 1..Len(t) |-> IF t[i] = 45 THEN 43 ELSE IF t[i] = 95 THEN 47 ELSE t[i]])

(***************************************************************************)
(* Fernet (cryptography.fernet), scaled down.  A token is the urlsafe      *)
(* base64 text of  version || iv || ciphertext || tag.  The timestamp is   *)
(* left out (the code passes no ttl, so it is never checked), the block    *)
(* cipher is a keyed byte-wise shift and the HMAC a keyed tag as long as   *)
(* the signed part, which no change of fewer bytes than that can forge.    *)
(***************************************************************************)
Version == 128       \* 0x80

\* the sum of the numbers of s, by halves
RECURSIVE SumSeq(_)
SumSeq(s) ==
    IF Len(s) = 0 THEN 0
    ELSE IF Len(s) = 1 THEN s[1]
    ELSE LET h == Len(s) \div 2
         IN  SumSeq(SubSeq(s, 1, h)) + SumSeq(SubSeq(s, h + 1, Len(s)))

Cipher(key, iv, data) == [i \in 1..Len(data) |-> (data[i] + 17 * key + 31 * iv + i) % 256]

Decipher(key, iv, ct) == [i \in 1..Len(ct) |-> (ct[i] + 256 * 256 - 17 * key - 31 * iv - i) % 256]

Tag(key, body) ==
    LET total == SumSeq(body)
    IN  [i \in 1..Len(body) |-> (body[i] + 101 * key + 7 * i + total) % 256]

\* Fernet(key).encrypt(data), with iv the os.urandom draw
FernetEncrypt(key, iv, data) ==
    LET body == <<Version, iv>> \o Cipher(key, iv, data)
    IN  urlsafe_b64encode(body \o Tag(key, body))

\* Fernet(key).decrypt(token): InvalidToken unless the token decodes, carries
\* the version byte and verifies under key
FernetDecrypt(key, token) ==
    LET dec == urlsafe_b64decode(token)
        d == dec.val
        h == Len(d) \div 2
        body == SubSeq(d, 1, h)
    IN  IF dec.exc # "none" THEN Raise("InvalidToken")
        ELSE IF Len(d) = 0 \/ d[1] # Version THEN Raise("InvalidToken")
        ELSE IF Len(d) < 4 \/ Len(d) % 2 # 0 THEN Raise("InvalidToken")
        ELSE IF SubSeq(d, h + 1, Len(d)) # Tag(key, body) THEN Raise("InvalidToken")
        ELSE Ok(Decipher(key, body[2], SubSeq(body, 3, h)))

(***************************************************************************)
(* Controllers/encryption.py                                               *)
(***************************************************************************)
\* encrypt_data(data) for a str argument; cs is _cipher_suite
encrypt_data(cs, iv, data) ==
    IF cs = NoKey THEN Raise("RuntimeError")
    ELSE Ok(FernetEncrypt(cs, iv, Utf8Encode(data)))

\* decrypt_data(encrypted_data) for a bytes argument
decrypt_data(cs, encrypted_data) ==
    IF cs = NoKey THEN Raise("RuntimeError")
    ELSE LET decrypted == FernetDecrypt(cs, encrypted_data)
         IN  IF decrypted.exc # "none" THEN decrypted ELSE Utf8Decode(decrypted.val)

\* encrypt_field returning the Fernet token itself, without the base64 step
encrypt_field_no_b64(cs, iv, value) ==
    IF value = None THEN Ok(None) ELSE encrypt_data(cs, iv, value)

\* encrypt_field without the None test: str(None) is encrypted
encrypt_field_no_none_test(cs, iv, value) ==
    LET encrypted == encrypt_data(cs, iv, IF value = None THEN <<78, 111, 110, 101>> ELSE value)
    IN  IF encrypted.exc # "none" THEN encrypted ELSE Ok(b64encode(encrypted.val))

\* encrypt_field(value) for value a str or None
encrypt_field(cs, iv, value) ==
    IF value = None THEN Ok(None)
    ELSE LET encrypted == encrypt_data(cs, iv, value)
         IN  IF encrypted.exc # "none" THEN encrypted
             ELSE Ok(b64encode(encrypted.val))

\* decrypt_field(encrypted_value) for encrypted_value a str or None
decrypt_field(cs, encrypted_value) ==
    IF encrypted_value = None THEN Ok(None)
    ELSE LET encrypted_bytes == b64decode(Utf8Encode(encrypted_value))
             decrypted == IF encrypted_bytes.exc # "none" THEN encrypted_bytes
                          ELSE decrypt_data(cs, encrypted_bytes.val)
         IN  IF decrypted.exc # "none" THEN Ok(encrypted_value) ELSE decrypted

(***************************************************************************)
(* Controllers/hashing.py                                                  *)
(***************************************************************************)
HexDigit(n) == IF n < 10 THEN 48 + n ELSE 87 + n

\* hashlib.sha256(b).hexdigest().  SHA-256 is taken as collision-free: the
\* digest of b is stood for by the hex text of b, which is one-to-one in b.
sha256_hexdigest(b) == Flatten([i \in 1..Len(b) |-> <<HexDigit(b[i] \div 16), HexDigit(b[i] % 16)>>])

\* str(n) for n >= 0
RECURSIVE DecimalStr(_)
DecimalStr(n) == IF n < 10 THEN <<48 + n>> ELSE Append(DecimalStr(n \div 10), 48 + (n % 10))

\* s[:n]
Prefix(s, n) == SubSeq(s, 1, IF Len(s) < n THEN Len(s) ELSE n)

\* hash_password with last_name left out of the salt
hash_password_no_last_name(password, username, first_name, last_name, registration_date) ==
    IF Len(username) < 3 THEN Raise("ValueError")
    ELSE Ok(sha256_hexdigest(Utf8Encode(Prefix(username, 3) \o DecimalStr(Len(username))
                                        \o first_name \o registration_date \o password)))

\* hash_password testing len(username) < 2
hash_password_min_two(password, username, first_name, last_name, registration_date) ==
    IF Len(username) < 2 THEN Raise("ValueError")
    ELSE Ok(sha256_hexdigest(Utf8Encode(Prefix(username, 3) \o DecimalStr(Len(username))
                                        \o first_name \o last_name \o registration_date
                                        \o password)))

\* hashing.hash_password(password, username, first_name, last_name, registration_date)
hashing_hash_password(password, username, first_name, last_name, registration_date) ==
    IF Len(username) < 3 THEN Raise("ValueError")
    ELSE LET salt == Prefix(username, 3) \o DecimalStr(Len(username))
                     \o first_name \o last_name \o registration_date
             salted_input == salt \o password
         IN  Ok(sha256_hexdigest(Utf8Encode(salted_input)))

(***************************************************************************)
(* Controllers/authorization.py                                            *)
(***************************************************************************)
ServiceEngineer == 0
SystemAdmin == 1
SuperAdmin == 2
UserRole == {ServiceEngineer, SystemAdmin, SuperAdmin}
NoRole == -1         \* LoggedUserRole = None

\* str.lower() on ASCII and Latin-1 letters
LowerChar(c) ==
    IF c >= 65 /\ c <= 90 THEN c + 32
    ELSE IF c >= 192 /\ c <= 222 /\ c # 215 THEN c + 32
    ELSE c

Lower(s) == [i \in 1..Len(s) |-> LowerChar(s[i])]

STR_service_engineer == <<115, 101, 114, 118, 105, 99, 101, 95, 101, 110, 103, 105, 110, 101, 101, 114>>  \* src/Controllers/authorization.py:15
STR_system_admin == <<115, 121, 115, 116, 101, 109, 95, 97, 100, 109, 105, 110>>  \* src/Controllers/authorization.py:16
STR_super_admin == <<115, 117, 112, 101, 114, 95, 97, 100, 109, 105, 110>>  \* src/Controllers/authorization.py:17

\* role_map.get with ServiceEngineer as the default for an unknown name
role_map_get_default_lowest(role) ==
    LET name == Lower(role)
    IN  IF name = STR_system_admin THEN SystemAdmin
        ELSE IF name = STR_super_admin THEN SuperAdmin
        ELSE ServiceEngineer

\* role_map.get(role.lower(), None): the value set_logged_user_role assigns
role_map_get(role) ==
    LET name == Lower(role)
    IN  IF name = STR_service_engineer THEN ServiceEngineer
        ELSE IF name = STR_system_admin THEN SystemAdmin
        ELSE IF name = STR_super_admin THEN SuperAdmin
        ELSE NoRole

\* has_required_role taking an unset role for the lowest role
has_required_role_unset_is_lowest(logged_user_role, required_role) ==
    IF logged_user_role = NoRole THEN required_role = ServiceEngineer
    ELSE logged_user_role >= required_role

\* has_required_role comparing with > instead of >=
has_required_role_strict(logged_user_role, required_role) ==
    IF logged_user_role = NoRole THEN FALSE
    ELSE logged_user_role > required_role

\* has_required_role(required_role), reading the global LoggedUserRole
has_required_role(logged_user_role, required_role) ==
    IF logged_user_role = NoRole THEN FALSE
    ELSE logged_user_role >= required_role

(***************************************************************************)
(* seed_users.py                                                           *)
(***************************************************************************)
\* "super_admin" / "Admin_123?" / super_admin / "Admin" "User",
\* "sysadmin1" / "SecurePass_456!" / system_admin / "Sophie" "Vermeer",
\* "engineer2" / "Engineer@789!" / service_engineer / "Daan" "Peters"
users_to_add == <<
    [username |-> <<115, 117, 112, 101, 114, 95, 97, 100, 109, 105, 110>>, password |-> <<65, 100, 109, 105, 110, 95, 49, 50, 51, 63>>,
     role |-> STR_super_admin, first_name |-> <<65, 100, 109, 105, 110>>, last_name |-> <<85, 115, 101, 114>>],
    [username |-> <<115, 121, 115, 97, 100, 109, 105, 110, 49>>, password |-> <<83, 101, 99, 117, 114, 101, 80, 97, 115, 115, 95, 52, 53, 54, 33>>,
     role |-> STR_system_admin, first_name |-> <<83, 111, 112, 104, 105, 101>>, last_name |-> <<86, 101, 114, 109, 101, 101, 114>>],
    [username |-> <<101, 110, 103, 105, 110, 101, 101, 114, 50>>, password |-> <<69, 110, 103, 105, 110, 101, 101, 114, 64, 55, 56, 57, 33>>,
     role |-> STR_service_engineer, first_name |-> <<68, 97, 97, 110>>, last_name |-> <<80, 101, 116, 101, 114, 115>>] >>

\* user_exists(cursor, username): SELECT 1 FROM users WHERE lower(username) = lower(?)
user_exists(rows, username) ==
    \E i \in 1..Len(rows) : Lower(rows[i].username) = Lower(Lower(username))

\* the body of the loop of seed_users for one user: the row it inserts.  The
\* username is stored as it is; the four encrypt_field calls and the clock
\* readings of one run are taken with one iv and one reading.
seed_row(cs, iv, reg_date, user) ==
    LET pw_hash == hashing_hash_password(user.password, user.username, user.first_name,
                                         user.last_name, reg_date).val
    IN  [username |-> user.username,
         password_hash |-> encrypt_field(cs, iv, pw_hash).val,
         role |-> encrypt_field(cs, iv, user.role).val,
         first_name |-> encrypt_field(cs, iv, user.first_name).val,
         last_name |-> encrypt_field(cs, iv, user.last_name).val,
         registration_date |-> reg_date]

\* the loop of seed_users over todo, on the table rows
RECURSIVE seed_loop(_, _, _, _, _)
seed_loop(rows, todo, cs, iv, reg_date) ==
    IF todo = <<>> THEN rows
    ELSE IF user_exists(rows, Head(todo).username)
         THEN seed_loop(rows, Tail(todo), cs, iv, reg_date)
    ELSE seed_loop(Append(rows, seed_row(cs, iv, reg_date, Head(todo))),
                   Tail(todo), cs, iv, reg_date)

(***************************************************************************)
(* Controllers/auth.py                                                     *)
(***************************************************************************)
STR_super_user == <<115, 117, 112, 101, 114, 95, 117, 115, 101, 114>>  \* src/Controllers/auth.py:14
STR_Admin_123 == <<65, 100, 109, 105, 110, 95, 49, 50, 51, 63>>  \* src/Controllers/auth.py:14

\* auth.hash_password(password): the one-argument function defined in auth.py,
\* which shadows the imported one
auth_hash_password(password) == sha256_hexdigest(Utf8Encode(password))

\* "Login successful" "Login failed (wrong password)"
\* "Login failed (unknown user)" "Login error" "system"
STR_Login_successful == <<76, 111, 103, 105, 110, 32, 115, 117, 99, 99, 101, 115, 115, 102, 117, 108>>  \* src/Controllers/auth.py:34
STR_Login_failed_wrong_password == <<76, 111, 103, 105, 110, 32, 102, 97, 105, 108, 101, 100, 32, 40, 119, 114, 111, 110, 103, 32, 112, 97, 115, 115, 119, 111, 114, 100, 41>>  \* src/Controllers/auth.py:37
STR_Login_failed_unknown_user == <<76, 111, 103, 105, 110, 32, 102, 97, 105, 108, 101, 100, 32, 40, 117, 110, 107, 110, 111, 119, 110, 32, 117, 115, 101, 114, 41>>  \* src/Controllers/auth.py:41
STR_Login_error == <<76, 111, 103, 105, 110, 32, 101, 114, 114, 111, 114>>  \* src/Controllers/auth.py:45
STR_system == <<115, 121, 115, 116, 101, 109>>  \* src/Controllers/auth.py:45
\* str(e) of the sqlite3.Error: "database is locked"
STR_sqlite3_Error == <<100, 97, 116, 97, 98, 97, 115, 101, 32, 105, 115, 32, 108, 111, 99, 107, 101, 100>>  \* src/Controllers/auth.py:44-45

\* a log_event call that never passes suspicious=True
Event_never_suspicious(username, action, extra_info, suspicious) ==
    [username |-> username, action |-> action, extra_info |-> extra_info,
     suspicious |-> FALSE]

\* the arguments of one log_event call
Event(username, action, extra_info, suspicious) ==
    [username |-> username, action |-> action, extra_info |-> extra_info,
     suspicious |-> suspicious]

\* the loop of login over the fetched rows
RECURSIVE login_scan(_, _, _, _)
login_scan(cs, rows, username, password) ==
    IF rows = <<>> THEN
        [is_valid |-> FALSE, role |-> None,
         events |-> <<Event(username, STR_Login_failed_unknown_user, <<>>, TRUE)>>]
    ELSE LET encrypted_username == Head(rows).username
             password_hash_db == Head(rows).password_hash
             role == Head(rows).role
             decrypted_username == decrypt_field(cs, encrypted_username).val
         IN  IF Lower(decrypted_username) = Lower(username) THEN
                 IF auth_hash_password(password) = password_hash_db THEN
                     [is_valid |-> TRUE, role |-> role,
                      events |-> <<Event(decrypted_username, STR_Login_successful, <<>>, FALSE)>>]
                 ELSE
                     [is_valid |-> FALSE, role |-> None,
                      events |-> <<Event(decrypted_username, STR_Login_failed_wrong_password, <<>>, TRUE)>>]
             ELSE login_scan(cs, Tail(rows), username, password)

\* login returning (False, "") instead of (False, None) for a wrong password
login_reveals_wrong_password(cs, rows, username, password, db) ==
    IF username = STR_super_user /\ password = STR_Admin_123 THEN
        [is_valid |-> TRUE, role |-> STR_super_admin, events |-> <<>>]
    ELSE IF db = "error" THEN
        [is_valid |-> FALSE, role |-> None,
         events |-> <<Event(STR_system, STR_Login_error, STR_sqlite3_Error, TRUE)>>]
    ELSE [login_scan(cs, rows, username, password) EXCEPT
            !.role = IF @ = None /\ user_exists(rows, username) THEN <<>> ELSE @]

\* login(username, password): the result and the log_event calls it makes.
\* db is "error" when the SELECT raises sqlite3.Error, "ok" when it answers.
\* hash_password and verify_password of Controllers/encryption.py
encryption_hash_password(password) == sha256_hexdigest(Utf8Encode(password))
verify_password(password, hashed) == encryption_hash_password(password) = hashed

\* UPDATE users SET password_hash = new_hash WHERE username = stored_username
update_password_hash(rows, stored_username, new_hash) ==
    [i \in 1..Len(rows) |->
        IF rows[i].username = stored_username
        THEN [rows[i] EXCEPT !.password_hash = new_hash] ELSE rows[i]]

\* the loop of update_user_password from row i on: what it returns and the
\* rows of the users table after it
RECURSIVE update_user_password_scan(_, _, _, _, _, _)
update_user_password_scan(cs, rows, i, username, current_password, new_password) ==
    IF i > Len(rows) THEN [val |-> FALSE, rows |-> rows]
    ELSE IF Lower(decrypt_field(cs, rows[i].username).val) = Lower(username)
    THEN IF ~verify_password(current_password, rows[i].password_hash)
         THEN [val |-> FALSE, rows |-> rows]
         ELSE [val |-> TRUE,
               rows |-> update_password_hash(rows, rows[i].username,
                                             auth_hash_password(new_password))]
    ELSE update_user_password_scan(cs, rows, i + 1, username, current_password, new_password)

update_user_password(cs, rows, username, current_password, new_password) ==
    update_user_password_scan(cs, rows, 1, username, current_password, new_password)

login(cs, rows, username, password, db) ==
    IF username = STR_super_user /\ password = STR_Admin_123 THEN
        [is_valid |-> TRUE, role |-> STR_super_admin, events |-> <<>>]
    ELSE IF db = "error" THEN
        [is_valid |-> FALSE, role |-> None,
         events |-> <<Event(STR_system, STR_Login_error, STR_sqlite3_Error, TRUE)>>]
    ELSE login_scan(cs, rows, username, password)

(***************************************************************************)
(* Controllers/logger.py                                                   *)
(***************************************************************************)
BAR == 124           \* '|'
STR_Yes == <<89, 101, 115>>  \* src/Controllers/logger.py:24
STR_No == <<78, 111>>  \* src/Controllers/logger.py:24

\* datetime.now().strftime("%Y-%m-%d %H:%M:%S") readings: "T1"
Nows == {<<84, 49>>}

\* log_entry of log_event: f"{now}|{username}|{action}|{extra_info}|{flag}"
log_entry(now, e) ==
    now \o <<BAR>> \o e.username \o <<BAR>> \o e.action \o <<BAR>> \o e.extra_info
        \o <<BAR>> \o (IF e.suspicious THEN STR_Yes ELSE STR_No)

\* the line log_event appends for entry: f.encrypt(log_entry.encode()), the
\* newline that ends it left out
LogLine(key, iv, entry) == FernetEncrypt(key, iv, Utf8Encode(entry))

\* log_event opening the log file with "wb" instead of "ab"
log_events_rewrite(events) ==
    IF events = <<>> THEN UNCHANGED <<log_key_file, log, written>>
    ELSE \E key \in (IF log_key_file = NoKey THEN Keys ELSE {log_key_file}),
            iv \in IVs, now \in Nows :
            /\ log_key_file' = key
            /\ log' = [i \in 1..Len(events) |-> LogLine(key, iv, log_entry(now, events[i]))]
            /\ written' = [i \in 1..Len(events) |->
                                [entry |-> log_entry(now, events[i]),
                                 event |-> events[i],
                                 suspicious |-> events[i].suspicious]]

\* log_event for each event of events: _get_key() creates the key file on first
\* use, and every event is appended as one line; written keeps, per line, the
\* call that wrote it
log_events(events) ==
    IF events = <<>> THEN UNCHANGED <<log_key_file, log, written>>
    ELSE \E key \in (IF log_key_file = NoKey THEN Keys ELSE {log_key_file}),
            iv \in IVs, now \in Nows :
            /\ log_key_file' = key
            /\ log' = log \o [i \in 1..Len(events) |->
                                LogLine(key, iv, log_entry(now, events[i]))]
            /\ written' = written \o [i \in 1..Len(events) |->
                                [entry |-> log_entry(now, events[i]),
                                 event |-> events[i],
                                 suspicious |-> events[i].suspicious]]

\* bytes.strip(): without the leading and trailing ASCII whitespace
IsSpace(b) == b \in {9, 10, 11, 12, 13, 32}

\* the greatest number of the non-empty set S
Greatest(S) == CHOOSE i \in S : \A j \in S : i >= j

StripTo(b, keep) == IF keep = {} THEN <<>> ELSE SubSeq(b, LeastOrZero(keep), Greatest(keep))

Strip(b) == StripTo(b, {i \in 1..Len(b) : ~IsSpace(b[i])})

\* the fields of s between the bars at the positions bars
SplitAt(s, bars) ==
    [k \in 1..(Len(bars) + 1) |->
        SubSeq(s, (IF k = 1 THEN 1 ELSE bars[k - 1] + 1),
                  (IF k = Len(bars) + 1 THEN Len(s) ELSE bars[k] - 1))]

\* s.split("|")
Split(s) == SplitAt(s, SelectSeq([i \in 1..Len(s) |-> i], LAMBDA i : s[i] = BAR))

\* bytes.decode() of what f.decrypt returned
decrypted_text(decrypted) ==
    IF decrypted.exc # "none" THEN decrypted ELSE Utf8Decode(decrypted.val)

\* f.decrypt(line.strip()).decode() for one line of the file
line_text(key, line) == decrypted_text(FernetDecrypt(key, Strip(line)))

\* read_logs giving up at the first line it cannot read
good_lines_until_first_bad(key, lines) ==
    SubSeq(lines, 1,
           LeastOrZero({i \in 1..(Len(lines) + 1) :
                            i = Len(lines) + 1 \/ line_text(key, lines[i]).exc # "none"}) - 1)

\* the lines of the file that read_logs does not skip
good_lines(key, lines) == SelectSeq(lines, LAMBDA line : line_text(key, line).exc = "none")

\* the list read_logs builds from the lines it does not skip
split_lines(key, good) == [i \in 1..Len(good) |-> Split(line_text(key, good[i]).val)]

\* read_logs(), with key the key _get_fernet() returns and lines the file
read_logs(key, lines) == split_lines(key, good_lines(key, lines))

\* "unauthorized" "Attempted function access without login"
\* "get_username() called with no logged user"
STR_unauthorized == <<117, 110, 97, 117, 116, 104, 111, 114, 105, 122, 101, 100>>  \* src/Controllers/authorization.py:36
STR_Attempted_function_access == <<65, 116, 116, 101, 109, 112, 116, 101, 100, 32, 102, 117, 110, 99, 116, 105, 111, 110, 32, 97, 99, 99, 101, 115, 115, 32, 119, 105, 116, 104, 111, 117, 116, 32, 108, 111, 103, 105, 110>>  \* src/Controllers/authorization.py:36
STR_get_username_called == <<103, 101, 116, 95, 117, 115, 101, 114, 110, 97, 109, 101, 40, 41, 32, 99, 97, 108, 108, 101, 100, 32, 119, 105, 116, 104, 32, 110, 111, 32, 108, 111, 103, 103, 101, 100, 32, 117, 115, 101, 114>>  \* src/Controllers/authorization.py:36

\* get_unread_suspicious_logs looking for "Yes" in every field
get_unread_suspicious_logs_any_field(logs) ==
    SelectSeq(logs, LAMBDA r : \E k \in 1..Len(r) : r[k] = STR_Yes)

\* get_unread_suspicious_logs(), with logs what read_logs() returns
get_unread_suspicious_logs(logs) == SelectSeq(logs, LAMBDA r : r[Len(r)] = STR_Yes)

(***************************************************************************)
(* Views/menu_selections.py                                                *)
(***************************************************************************)
STR_menu == <<109, 101, 110, 117>>  \* "menu" (src/Views/menu_selections.py:29)
STR_None == <<78, 111, 110, 101>>  \* "None" (src/Views/menu_selections.py:30)
STR_True == <<84, 114, 117, 101>>  \* "True" (src/Views/menu_selections.py:199)
STR_False == <<70, 97, 108, 115, 101>>  \* "False" (src/Views/menu_selections.py:199)
STR_Menu_access_denied == <<77, 101, 110, 117, 32, 97, 99, 99, 101, 115, 115, 32, 100, 101, 110, 105, 101, 100, 32, 45, 32, 105, 110, 115, 117, 102, 102, 105, 99, 105, 101, 110, 116, 32, 114, 111, 108, 101>>  \* "Menu access denied - insufficient role" (src/Views/menu_selections.py:29)
STR_Required_ == <<82, 101, 113, 117, 105, 114, 101, 100, 58, 32>>  \* "Required: " (src/Views/menu_selections.py:30)
STR__Menu_ == <<44, 32, 77, 101, 110, 117, 58, 32>>  \* ", Menu: " (src/Views/menu_selections.py:30)
STR_Menu_choice_request_initiated == <<77, 101, 110, 117, 32, 99, 104, 111, 105, 99, 101, 32, 114, 101, 113, 117, 101, 115, 116, 32, 105, 110, 105, 116, 105, 97, 116, 101, 100>>  \* "Menu choice request initiated" (src/Views/menu_selections.py:39)
STR_Menu_ == <<77, 101, 110, 117, 58, 32>>  \* "Menu: " (src/Views/menu_selections.py:40)
STR__Items_ == <<44, 32, 73, 116, 101, 109, 115, 58, 32>>  \* ", Items: " (src/Views/menu_selections.py:40)
STR__Max_attempts_ == <<44, 32, 77, 97, 120, 32, 97, 116, 116, 101, 109, 112, 116, 115, 58, 32>>  \* ", Max attempts: " (src/Views/menu_selections.py:40)
STR_Menu_item_filtered == <<77, 101, 110, 117, 32, 105, 116, 101, 109, 32, 102, 105, 108, 116, 101, 114, 101, 100, 32, 100, 117, 101, 32, 116, 111, 32, 105, 110, 115, 117, 102, 102, 105, 99, 105, 101, 110, 116, 32, 114, 111, 108, 101>>  \* "Menu item filtered due to insufficient role" (src/Views/menu_selections.py:49)
STR_Item_ == <<73, 116, 101, 109, 58, 32>>  \* "Item: " (src/Views/menu_selections.py:50)
STR__Required_ == <<44, 32, 82, 101, 113, 117, 105, 114, 101, 100, 58, 32>>  \* ", Required: " (src/Views/menu_selections.py:50)
STR_No_accessible_menu_items == <<78, 111, 32, 97, 99, 99, 101, 115, 115, 105, 98, 108, 101, 32, 109, 101, 110, 117, 32, 105, 116, 101, 109, 115, 32, 102, 111, 114, 32, 117, 115, 101, 114, 32, 114, 111, 108, 101>>  \* "No accessible menu items for user role" (src/Views/menu_selections.py:53)
STR_Menu_choice_received == <<77, 101, 110, 117, 32, 99, 104, 111, 105, 99, 101, 32, 114, 101, 99, 101, 105, 118, 101, 100>>  \* "Menu choice received" (src/Views/menu_selections.py:105)
STR_Choice_ == <<67, 104, 111, 105, 99, 101, 58, 32>>  \* "Choice: " (src/Views/menu_selections.py:106)
STR__Attempt_ == <<44, 32, 65, 116, 116, 101, 109, 112, 116, 58, 32>>  \* ", Attempt: " (src/Views/menu_selections.py:106)
STR_Valid_menu_choice_selected == <<86, 97, 108, 105, 100, 32, 109, 101, 110, 117, 32, 99, 104, 111, 105, 99, 101, 32, 115, 101, 108, 101, 99, 116, 101, 100>>  \* "Valid menu choice selected" (src/Views/menu_selections.py:110)
STR__Title_ == <<44, 32, 84, 105, 116, 108, 101, 58, 32>>  \* ", Title: " (src/Views/menu_selections.py:111)
STR_Invalid_menu_choice == <<73, 110, 118, 97, 108, 105, 100, 32, 109, 101, 110, 117, 32, 99, 104, 111, 105, 99, 101>>  \* "Invalid menu choice" (src/Views/menu_selections.py:114)
STR__Valid_ == <<44, 32, 86, 97, 108, 105, 100, 58, 32>>  \* ", Valid: " (src/Views/menu_selections.py:115)
STR_Menu_choice_cancelled == <<77, 101, 110, 117, 32, 99, 104, 111, 105, 99, 101, 32, 99, 97, 110, 99, 101, 108, 108, 101, 100, 32, 98, 121, 32, 117, 115, 101, 114>>  \* "Menu choice cancelled by user" (src/Views/menu_selections.py:127)
STR_KeyboardInterrupt_received == <<75, 101, 121, 98, 111, 97, 114, 100, 73, 110, 116, 101, 114, 114, 117, 112, 116, 32, 114, 101, 99, 101, 105, 118, 101, 100>>  \* "KeyboardInterrupt received" (src/Views/menu_selections.py:127)
STR_Unexpected_error_during_menu_choice == <<85, 110, 101, 120, 112, 101, 99, 116, 101, 100, 32, 101, 114, 114, 111, 114, 32, 100, 117, 114, 105, 110, 103, 32, 109, 101, 110, 117, 32, 99, 104, 111, 105, 99, 101>>  \* "Unexpected error during menu choice" (src/Views/menu_selections.py:131)
STR_Error_ == <<69, 114, 114, 111, 114, 58, 32>>  \* "Error: " (src/Views/menu_selections.py:131)
STR_EOF_when_reading_a_line == <<69, 79, 70, 32, 119, 104, 101, 110, 32, 114, 101, 97, 100, 105, 110, 103, 32, 97, 32, 108, 105, 110, 101>>  \* "EOF when reading a line" (src/Views/menu_selections.py:103)
STR_Menu_choice_attempts_exhausted == <<77, 101, 110, 117, 32, 99, 104, 111, 105, 99, 101, 32, 97, 116, 116, 101, 109, 112, 116, 115, 32, 101, 120, 104, 97, 117, 115, 116, 101, 100>>  \* "Menu choice attempts exhausted" (src/Views/menu_selections.py:135)
STR_Failed_attempts_ == <<70, 97, 105, 108, 101, 100, 32, 97, 116, 116, 101, 109, 112, 116, 115, 58, 32>>  \* "Failed attempts: " (src/Views/menu_selections.py:136)
STR_Invalid_menu_selection_for_execution == <<73, 110, 118, 97, 108, 105, 100, 32, 109, 101, 110, 117, 32, 115, 101, 108, 101, 99, 116, 105, 111, 110, 32, 102, 111, 114, 32, 101, 120, 101, 99, 117, 116, 105, 111, 110>>  \* "Invalid menu selection for execution" (src/Views/menu_selections.py:159)
STR_Function_execution_denied == <<70, 117, 110, 99, 116, 105, 111, 110, 32, 101, 120, 101, 99, 117, 116, 105, 111, 110, 32, 100, 101, 110, 105, 101, 100, 32, 45, 32, 105, 110, 115, 117, 102, 102, 105, 99, 105, 101, 110, 116, 32, 114, 111, 108, 101>>  \* "Function execution denied - insufficient role" (src/Views/menu_selections.py:169)
STR_Function_ == <<70, 117, 110, 99, 116, 105, 111, 110, 58, 32>>  \* "Function: " (src/Views/menu_selections.py:170)
STR_Invalid_function_for_menu_execution == <<73, 110, 118, 97, 108, 105, 100, 32, 102, 117, 110, 99, 116, 105, 111, 110, 32, 102, 111, 114, 32, 109, 101, 110, 117, 32, 101, 120, 101, 99, 117, 116, 105, 111, 110>>  \* "Invalid function for menu execution" (src/Views/menu_selections.py:180)
STR__Function_ == <<44, 32, 70, 117, 110, 99, 116, 105, 111, 110, 58, 32>>  \* ", Function: " (src/Views/menu_selections.py:181)
STR_Executing_menu_function == <<69, 120, 101, 99, 117, 116, 105, 110, 103, 32, 109, 101, 110, 117, 32, 102, 117, 110, 99, 116, 105, 111, 110>>  \* "Executing menu function" (src/Views/menu_selections.py:191)
STR_Menu_function_execution_completed == <<77, 101, 110, 117, 32, 102, 117, 110, 99, 116, 105, 111, 110, 32, 101, 120, 101, 99, 117, 116, 105, 111, 110, 32, 99, 111, 109, 112, 108, 101, 116, 101, 100>>  \* "Menu function execution completed" (src/Views/menu_selections.py:197)
STR__Success_ == <<44, 32, 83, 117, 99, 99, 101, 115, 115, 58, 32>>  \* ", Success: " (src/Views/menu_selections.py:198)
STR_Menu_function_execution_failed == <<77, 101, 110, 117, 32, 102, 117, 110, 99, 116, 105, 111, 110, 32, 101, 120, 101, 99, 117, 116, 105, 111, 110, 32, 102, 97, 105, 108, 101, 100>>  \* "Menu function execution failed" (src/Views/menu_selections.py:203)
STR__Error_ == <<44, 32, 69, 114, 114, 111, 114, 58, 32>>  \* ", Error: " (src/Views/menu_selections.py:204)

\* bool(required_role): None and UserRole.ServiceEngineer, the IntEnum member
\* of value 0, are false
Truthy(required_role) == required_role # NoRole /\ required_role # 0

\* f"{required_role}": "None", or the number of the IntEnum member
RoleStr(required_role) == IF required_role = NoRole THEN STR_None ELSE DecimalStr(required_role)

\* str(b) of a bool
BoolStr(b) == IF b THEN STR_True ELSE STR_False

\* repr of a list of str without quotes or backslashes: "['1', '2']"
ListRepr(keys) ==
    <<91>> \o Flatten([i \in 1..Len(keys) |->
                (IF i > 1 THEN <<44, 32>> ELSE <<>>) \o <<39>> \o keys[i] \o <<39>>]) \o <<93>>

\* what a menu call returns: the exception that leaves it, its value, the
\* log_event calls it made, the input() calls it made, and whether it called
\* the function of an item
MenuResult(exc, val, events, reads, called) ==
    [exc |-> exc, val |-> val, events |-> events, reads |-> reads, called |-> called]

\* input(): the next line of the console, KeyboardInterrupt where the user
\* pressed Ctrl-C, EOFError at the end of the input
KeyboardInterrupt == [kind |-> "KeyboardInterrupt", text |-> <<>>]
Line(text) == [kind |-> "line", text |-> text]
input(inputs, n) == IF n > Len(inputs) THEN [kind |-> "EOFError", text |-> <<>>] ELSE inputs[n]

\* input("\nPress Enter to continue...") outside any try, then return None:
\* reads input n + 1
pause_return_None(inputs, n, events) ==
    IF input(inputs, n + 1).kind = "line"
    THEN MenuResult("none", None, events, n + 1, FALSE)
    ELSE MenuResult(input(inputs, n + 1).kind, None, events, n + 1, FALSE)

\* the position of key in keys, 0 if it is not there
IndexOf(keys, key) == LeastOrZero({i \in 1..Len(keys) : keys[i] = key})

\* the except clauses of the loop of ask_menu_choice, for the exception kind
\* raised by an input() call of the try block
menu_choice_except(kind, events, reads) ==
    IF kind = "KeyboardInterrupt"
    THEN MenuResult("none", None,
            Append(events, Event(STR_menu, STR_Menu_choice_cancelled,
                                 STR_KeyboardInterrupt_received, FALSE)), reads, FALSE)
    ELSE MenuResult("none", None,
            Append(events, Event(STR_menu, STR_Unexpected_error_during_menu_choice,
                                 STR_Error_ \o STR_EOF_when_reading_a_line, TRUE)), reads, FALSE)

\* the while loop of ask_menu_choice and what follows it: accessible are the
\* accessible items, attempt_count attempts were made, reads inputs were read
RECURSIVE menu_choice_loop(_, _, _, _, _, _, _)
menu_choice_loop(accessible, header, max_attempts, inputs, attempt_count, reads, events) ==
    IF attempt_count >= max_attempts
    THEN pause_return_None(inputs, reads,
            Append(events, Event(STR_menu, STR_Menu_choice_attempts_exhausted,
                                 STR_Failed_attempts_ \o DecimalStr(max_attempts)
                                    \o STR__Menu_ \o header, TRUE)))
    ELSE LET n == attempt_count + 1
             in == input(inputs, reads + 1)
             choice == Strip(in.text)
             valid_choices == [i \in 1..Len(accessible) |-> accessible[i].key]
             received == Append(events, Event(STR_menu, STR_Menu_choice_received,
                            STR_Choice_ \o choice \o STR__Attempt_ \o DecimalStr(n), FALSE))
         IN  IF in.kind # "line" THEN menu_choice_except(in.kind, events, reads + 1)
             ELSE IF IndexOf(valid_choices, choice) # 0
             THEN MenuResult("none", choice,
                    Append(received, Event(STR_menu, STR_Valid_menu_choice_selected,
                        STR_Choice_ \o choice \o STR__Title_
                            \o accessible[IndexOf(valid_choices, choice)].title, FALSE)),
                    reads + 1, FALSE)
             ELSE LET invalid == Append(received, Event(STR_menu, STR_Invalid_menu_choice,
                            STR_Choice_ \o choice \o STR__Valid_ \o ListRepr(valid_choices)
                                \o STR__Attempt_ \o DecimalStr(n), n > 1))
                  IN  IF max_attempts - n > 0
                      THEN IF input(inputs, reads + 2).kind # "line"
                           THEN menu_choice_except(input(inputs, reads + 2).kind, invalid, reads + 2)
                           ELSE menu_choice_loop(accessible, header, max_attempts, inputs,
                                                 n, reads + 2, invalid)
                      ELSE menu_choice_loop(accessible, header, max_attempts, inputs,
                                            n, reads + 1, invalid)

\* whether the item passes the filter of ask_menu_choice
item_accessible(logged_user_role, item) ==
    item.required_role = NoRole \/ has_required_role(logged_user_role, item.required_role)

\* the events of the filter loop of ask_menu_choice: one per item left out
filtered_events(logged_user_role, menu_items) ==
    LET out == SelectSeq(menu_items, LAMBDA item : ~item_accessible(logged_user_role, item))
    IN  [i \in 1..Len(out) |->
            Event(STR_menu, STR_Menu_item_filtered,
                  STR_Item_ \o out[i].title \o STR__Required_ \o RoleStr(out[i].required_role),
                  FALSE)]

\* ask_menu_choice(menu_items, header, max_attempts, required_role), reading
\* the global LoggedUserRole and the console inputs
ask_menu_choice(logged_user_role, menu_items, header, max_attempts, required_role, inputs) ==
    IF Truthy(required_role) /\ ~has_required_role(logged_user_role, required_role)
    THEN pause_return_None(inputs, 0,
            <<Event(STR_menu, STR_Menu_access_denied,
                    STR_Required_ \o RoleStr(required_role) \o STR__Menu_ \o header, TRUE)>>)
    ELSE LET initiated == <<Event(STR_menu, STR_Menu_choice_request_initiated,
                                  STR_Menu_ \o header \o STR__Items_ \o DecimalStr(Len(menu_items))
                                    \o STR__Max_attempts_ \o DecimalStr(max_attempts), FALSE)>>
                                \o filtered_events(logged_user_role, menu_items)
             accessible == SelectSeq(menu_items, LAMBDA item : item_accessible(logged_user_role, item))
         IN  IF accessible = <<>>
             THEN pause_return_None(inputs, 0,
                    Append(initiated, Event(STR_menu, STR_No_accessible_menu_items,
                                            STR_Menu_ \o header, TRUE)))
             ELSE menu_choice_loop(accessible, header, max_attempts, inputs, 0, 0, initiated)

\* input("\nPress Enter to continue...") of execute_menu_selection, then
\* return None: reads the first input
execute_pause(inputs, events, called) ==
    IF input(inputs, 1).kind = "line"
    THEN MenuResult("none", None, events, 1, called)
    ELSE MenuResult(input(inputs, 1).kind, None, events, 1, called)

\* the try block of execute_menu_selection: the function of the item is called
\* and returns a value, returns None or raises Exception("e")
run_menu_function(selected_item, selected_choice, inputs) ==
    LET executing == <<Event(STR_menu, STR_Executing_menu_function,
                             STR_Choice_ \o selected_choice \o STR__Function_
                                \o selected_item.title, FALSE)>>
    IN  IF selected_item.function = "raise"
        THEN execute_pause(inputs,
                Append(executing, Event(STR_menu, STR_Menu_function_execution_failed,
                    STR_Choice_ \o selected_choice \o STR__Error_ \o <<101>>, TRUE)),
                TRUE)
        ELSE MenuResult("none", IF selected_item.function = "value" THEN <<118>> ELSE None,
                Append(executing, Event(STR_menu, STR_Menu_function_execution_completed,
                    STR_Choice_ \o selected_choice \o STR__Success_
                        \o BoolStr(selected_item.function = "value"), FALSE)),
                0, TRUE)

\* execute_menu_selection(menu_items, selected_choice), reading the global
\* LoggedUserRole and the console inputs
execute_menu_selection(logged_user_role, menu_items, selected_choice, inputs) ==
    LET keys == [i \in 1..Len(menu_items) |-> menu_items[i].key]
        at == IndexOf(keys, selected_choice)
    IN  IF at = 0
        THEN MenuResult("none", None,
                <<Event(STR_menu, STR_Invalid_menu_selection_for_execution,
                        STR_Choice_ \o selected_choice, TRUE)>>, 0, FALSE)
        ELSE IF Truthy(menu_items[at].required_role)
                /\ ~has_required_role(logged_user_role, menu_items[at].required_role)
        THEN execute_pause(inputs,
                <<Event(STR_menu, STR_Function_execution_denied,
                        STR_Function_ \o menu_items[at].title \o STR__Required_
                            \o RoleStr(menu_items[at].required_role), TRUE)>>, FALSE)
        ELSE IF menu_items[at].function = "notcallable"
        THEN execute_pause(inputs,
                <<Event(STR_menu, STR_Invalid_function_for_menu_execution,
                        STR_Choice_ \o selected_choice \o STR__Function_ \o STR_None, TRUE)>>,
                FALSE)
        ELSE run_menu_function(menu_items[at], selected_choice, inputs)

(***************************************************************************)
(* Controllers/dbbackup.py                                                 *)
(***************************************************************************)
STR_dbbackup == <<100, 98, 98, 97, 99, 107, 117, 112>>  \* "dbbackup" (src/Controllers/dbbackup.py:22)
STR_Database_backup_started == <<68, 97, 116, 97, 98, 97, 115, 101, 32, 98, 97, 99, 107, 117, 112, 32, 115, 116, 97, 114, 116, 101, 100>>  \* "Database backup started" (src/Controllers/dbbackup.py:22)
STR_initiated_by_ == <<105, 110, 105, 116, 105, 97, 116, 101, 100, 32, 98, 121, 32>>  \* "initiated by " (src/Controllers/dbbackup.py:22)
STR_Database_backup_without_permission == <<68, 97, 116, 97, 98, 97, 115, 101, 32, 98, 97, 99, 107, 117, 112, 32, 102, 117, 110, 99, 116, 105, 111, 110, 32, 99, 97, 108, 108, 101, 100, 32, 119, 105, 116, 104, 111, 117, 116, 32, 112, 101, 114, 109, 105, 115, 115, 105, 111, 110>>  \* "Database backup function called without permission" (src/Controllers/dbbackup.py:24)
STR_Insufficient_permissions == <<73, 110, 115, 117, 102, 102, 105, 99, 105, 101, 110, 116, 32, 112, 101, 114, 109, 105, 115, 115, 105, 111, 110, 115>>  \* "Insufficient permissions" (src/Controllers/dbbackup.py:25)
STR_BCK_ == <<66, 67, 75, 95>>  \* "BCK_" (src/Controllers/dbbackup.py:30)
STR_backups_backup_ == <<98, 97, 99, 107, 117, 112, 115, 47, 98, 97, 99, 107, 117, 112, 95>>  \* "backups/backup_" (src/Controllers/dbbackup.py:37)
STR_backup_ == <<98, 97, 99, 107, 117, 112, 95>>  \* "backup_" (src/Controllers/dbbackup.py:37)
STR_zip == <<46, 122, 105, 112>>  \* ".zip" (src/Controllers/dbbackup.py:37)
STR_Selected_tables_exported == <<83, 101, 108, 101, 99, 116, 101, 100, 32, 116, 97, 98, 108, 101, 115, 32, 101, 120, 112, 111, 114, 116, 101, 100, 32, 116, 111, 32, 98, 97, 99, 107, 117, 112>>  \* "Selected tables exported to backup" (src/Controllers/dbbackup.py:73)
STR_Tables_users_travellers_scooters == <<84, 97, 98, 108, 101, 115, 58, 32, 117, 115, 101, 114, 115, 44, 32, 116, 114, 97, 118, 101, 108, 108, 101, 114, 115, 44, 32, 115, 99, 111, 111, 116, 101, 114, 115>>  \* "Tables: users, travellers, scooters" (src/Controllers/dbbackup.py:73)
STR_Database_backup_completed == <<68, 97, 116, 97, 98, 97, 115, 101, 32, 98, 97, 99, 107, 117, 112, 32, 99, 111, 109, 112, 108, 101, 116, 101, 100, 32, 115, 117, 99, 99, 101, 115, 115, 102, 117, 108, 108, 121>>  \* "Database backup completed successfully" (src/Controllers/dbbackup.py:98)
STR_File_ == <<70, 105, 108, 101, 58, 32>>  \* "File: " (src/Controllers/dbbackup.py:99)
STR__Code_ == <<44, 32, 67, 111, 100, 101, 58, 32>>  \* ", Code: " (src/Controllers/dbbackup.py:99)
STR__User_ == <<44, 32, 85, 115, 101, 114, 58, 32>>  \* ", User: " (src/Controllers/dbbackup.py:99)
STR_Database_backup_failed == <<68, 97, 116, 97, 98, 97, 115, 101, 32, 98, 97, 99, 107, 117, 112, 32, 102, 97, 105, 108, 101, 100>>  \* "Database backup failed" (src/Controllers/dbbackup.py:110)
STR_Encryption_not_initialized == <<69, 110, 99, 114, 121, 112, 116, 105, 111, 110, 32, 110, 111, 116, 32, 105, 110, 105, 116, 105, 97, 108, 105, 122, 101, 100>>  \* "Encryption not initialized" (src/Controllers/dbbackup.py:110)
STR_no_such_table_backups == <<110, 111, 32, 115, 117, 99, 104, 32, 116, 97, 98, 108, 101, 58, 32, 98, 97, 99, 107, 117, 112, 115>>  \* "no such table: backups" (src/Controllers/dbbackup.py:110)
STR_Database_restore_started == <<68, 97, 116, 97, 98, 97, 115, 101, 32, 114, 101, 115, 116, 111, 114, 101, 32, 115, 116, 97, 114, 116, 101, 100>>  \* "Database restore started" (src/Controllers/dbbackup.py:123)
STR__code_ == <<44, 32, 99, 111, 100, 101, 58, 32>>  \* ", code: " (src/Controllers/dbbackup.py:123)
STR_Database_restore_without_permission == <<68, 97, 116, 97, 98, 97, 115, 101, 32, 114, 101, 115, 116, 111, 114, 101, 32, 102, 117, 110, 99, 116, 105, 111, 110, 32, 99, 97, 108, 108, 101, 100, 32, 119, 105, 116, 104, 111, 117, 116, 32, 112, 101, 114, 109, 105, 115, 115, 105, 111, 110>>  \* "Database restore function called without permission" (src/Controllers/dbbackup.py:126)
STR_Backup_not_found == <<66, 97, 99, 107, 117, 112, 32, 110, 111, 116, 32, 102, 111, 117, 110, 100>>  \* "Backup not found" (src/Controllers/dbbackup.py:137)
STR_Code_ == <<67, 111, 100, 101, 58, 32>>  \* "Code: " (src/Controllers/dbbackup.py:137)
STR_Backup_file_not_found_on_disk == <<66, 97, 99, 107, 117, 112, 32, 102, 105, 108, 101, 32, 110, 111, 116, 32, 102, 111, 117, 110, 100, 32, 111, 110, 32, 100, 105, 115, 107>>  \* "Backup file not found on disk" (src/Controllers/dbbackup.py:145)
STR_Path_ == <<80, 97, 116, 104, 58, 32>>  \* "Path: " (src/Controllers/dbbackup.py:145)
STR_Database_restore_denied == <<68, 97, 116, 97, 98, 97, 115, 101, 32, 114, 101, 115, 116, 111, 114, 101, 32, 100, 101, 110, 105, 101, 100, 32, 45, 32, 110, 111, 116, 32, 97, 117, 116, 104, 111, 114, 105, 122, 101, 100, 32, 117, 115, 101, 114>>  \* "Database restore denied - not authorized user" (src/Controllers/dbbackup.py:156)
STR_User_ == <<85, 115, 101, 114, 58, 32>>  \* "User: " (src/Controllers/dbbackup.py:157)
STR__Allowed_ == <<44, 32, 65, 108, 108, 111, 119, 101, 100, 58, 32>>  \* ", Allowed: " (src/Controllers/dbbackup.py:157)
STR_Database_restore_completed == <<68, 97, 116, 97, 98, 97, 115, 101, 32, 114, 101, 115, 116, 111, 114, 101, 32, 99, 111, 109, 112, 108, 101, 116, 101, 100, 32, 115, 117, 99, 99, 101, 115, 115, 102, 117, 108, 108, 121>>  \* "Database restore completed successfully" (src/Controllers/dbbackup.py:212)
STR_Database_restore_failed == <<68, 97, 116, 97, 98, 97, 115, 101, 32, 114, 101, 115, 116, 111, 114, 101, 32, 102, 97, 105, 108, 101, 100>>  \* "Database restore failed" (src/Controllers/dbbackup.py:216)
STR_13_values_for_12_columns == <<49, 51, 32, 118, 97, 108, 117, 101, 115, 32, 102, 111, 114, 32, 49, 50, 32, 99, 111, 108, 117, 109, 110, 115>>  \* "13 values for 12 columns" (src/Controllers/dbbackup.py:216)

\* str.upper() on ASCII and Latin-1 letters
UpperChar(c) ==
    IF c >= 97 /\ c <= 122 THEN c - 32
    ELSE IF c >= 224 /\ c <= 254 /\ c # 247 THEN c - 32
    ELSE c
Upper(s) == [i \in 1..Len(s) |-> UpperChar(s[i])]

\* f"{x}" of a str or None
NameStr(x) == IF x = None THEN STR_None ELSE x

\* the log_event call get_username() makes: none when LoggedUserName is set
get_username_events(logged_user_name) ==
    IF logged_user_name # None THEN <<>>
    ELSE <<Event(STR_unauthorized, STR_Attempted_function_access,
                 STR_get_username_called, TRUE)>>

\* the columns of a users row, as SELECT * returns them
UserFields(row) ==
    <<row.username, row.password_hash, row.role, row.first_name, row.last_name,
      row.registration_date>>
UserRow(f) ==
    [username |-> f[1], password_hash |-> f[2], role |-> f[3], first_name |-> f[4],
     last_name |-> f[5], registration_date |-> f[6]]

\* A travellers or scooters row is modelled by its one column stored as plain
\* text (birthday, traveller.py:20): the id and the encrypted columns are
\* integers and base64 text, which csv_export and csv_ok leave as they are.
\* the CSV text of a table, as the rows it holds: ",".join(str(item) ...) per
\* row, every item as its str()
csv_export(rows) == [i \in 1..Len(rows) |-> [j \in 1..Len(rows[i]) |-> NameStr(rows[i][j])]]

\* line.split(',') gives one value per column: no field of the row holds a ','
csv_row_ok(row) == \A j \in 1..Len(row) : \A k \in 1..Len(row[j]) : row[j][k] # 44
csv_ok(rows) == \A i \in 1..Len(rows) : csv_row_ok(rows[i])

\* the zip file create_backup writes: users.csv, travellers.csv, scooters.csv
zip_of(users_rows, travellers_rows, scooters_rows) ==
    [users |-> csv_export([i \in 1..Len(users_rows) |-> UserFields(users_rows[i])]),
     travellers |-> csv_export(travellers_rows),
     scooters |-> csv_export(scooters_rows)]

\* backup_code, backup_filename and str(backup_path) of create_backup
backup_code_of(username, timestamp) ==
    STR_BCK_ \o Prefix(Upper(username), 3) \o <<95>> \o timestamp
backup_filename_of(backup_code) == STR_backup_ \o backup_code \o STR_zip
backup_path_of(backup_code) == STR_backups_backup_ \o backup_code \o STR_zip

\* what a dbbackup call did: whether it succeeded, the value or error text it
\* returned, its log_event calls, the files it wrote, the backups rows it
\* inserted, and the tables as it left them
BackupResult(ok, val, events, files, rows, tables) ==
    [ok |-> ok, val |-> val, events |-> events, files |-> files, rows |-> rows,
     tables |-> tables]

\* the except clause of create_backup, the zip file being written already
create_backup_failed(events, file, error, tables) ==
    BackupResult(FALSE, error,
        Append(events, Event(STR_dbbackup, STR_Database_backup_failed,
                             STR_Error_ \o error, TRUE)),
        <<file>>, <<>>, tables)

\* the first log_event of create_backup
create_backup_started(username) ==
    <<Event(STR_dbbackup, STR_Database_backup_started, STR_initiated_by_ \o username, FALSE)>>

\* lines 24-25 of create_backup
create_backup_denied(username, tables) ==
    BackupResult(FALSE, STR_Insufficient_permissions,
        Append(create_backup_started(username),
               Event(STR_dbbackup, STR_Database_backup_without_permission,
                     STR_initiated_by_ \o username, TRUE)),
        <<>>, <<>>, tables)

\* lines 27-111 of create_backup, file being the zip file of line 41 and
\* exported the events up to the INSERT
create_backup_try(name, cs, iv, tables, table_exists, username, backup_code, file, exported) ==
    IF encrypt_field(cs, iv, name).exc # "none" \/ encrypt_field(cs, iv, username).exc # "none"
    THEN create_backup_failed(exported, file, STR_Encryption_not_initialized, tables)
    ELSE IF ~table_exists
    THEN create_backup_failed(exported, file, STR_no_such_table_backups, tables)
    ELSE BackupResult(TRUE, backup_code,
            Append(exported, Event(STR_dbbackup, STR_Database_backup_completed,
                STR_File_ \o backup_filename_of(backup_code) \o STR__Code_ \o backup_code
                    \o STR__User_ \o username, FALSE)),
            <<file>>,
            <<[path |-> file.path, backup_code |-> backup_code,
               created_by_username |-> encrypt_field(cs, iv, name).val,
               restore_allowed_username |-> encrypt_field(cs, iv, username).val,
               allowed |-> username]>>,
            tables)

\* the events of create_backup up to the INSERT: get_username() is an argument
\* of it
create_backup_exported(name, username) ==
    Append(create_backup_started(username),
           Event(STR_dbbackup, STR_Selected_tables_exported,
                 STR_Tables_users_travellers_scooters, FALSE))
        \o get_username_events(name)

backup_file_of(username, timestamp, tables) ==
    [path |-> backup_path_of(backup_code_of(username, timestamp)),
     zip |-> zip_of(tables.users, tables.travellers, tables.scooters)]

\* create_backup with the permission test of restore_backup: SystemAdmin
create_backup_for_system_admin(role, name, cs, iv, timestamp, tables, table_exists, username) ==
    IF ~has_required_role(role, SystemAdmin)
    THEN create_backup_denied(username, tables)
    ELSE create_backup_try(name, cs, iv, tables, table_exists, username,
            backup_code_of(username, timestamp), backup_file_of(username, timestamp, tables),
            create_backup_exported(name, username))

\* create_backup(username): role and name are LoggedUserRole and LoggedUserName,
\* tables the three tables, table_exists whether there is a backups table
create_backup(role, name, cs, iv, timestamp, tables, table_exists, username) ==
    IF ~has_required_role(role, SuperAdmin)
    THEN create_backup_denied(username, tables)
    ELSE create_backup_try(name, cs, iv, tables, table_exists, username,
            backup_code_of(username, timestamp), backup_file_of(username, timestamp, tables),
            create_backup_exported(name, username))

\* restore_backup returning False after the events
restore_refused(events, tables) == BackupResult(FALSE, None, events, <<>>, <<>>, tables)

\* the first element of seq that satisfies Test, as a sequence of at most one
First(seq, Test(_)) ==
    IF SelectSeq(seq, Test) = <<>> THEN <<>> ELSE <<Head(SelectSeq(seq, Test))>>

\* lines 164-213 of restore_backup: the three tables are emptied and filled
\* from the zip; an INSERT that raises rolls all of it back
restore_from_zip(events, zip, backup_code, tables) ==
    IF ~(csv_ok(zip.users) /\ csv_ok(zip.travellers) /\ csv_ok(zip.scooters))
    THEN restore_refused(
            Append(events, Event(STR_dbbackup, STR_Database_restore_failed,
                                 STR_Error_ \o STR_13_values_for_12_columns, TRUE)), tables)
    ELSE BackupResult(TRUE, None,
            Append(events, Event(STR_dbbackup, STR_Database_restore_completed,
                                 STR_Code_ \o backup_code, FALSE)),
            <<>>, <<>>,
            [users |-> [i \in 1..Len(zip.users) |-> UserRow(zip.users[i])],
             travellers |-> zip.travellers, scooters |-> zip.scooters])

\* lines 148-162 of restore_backup: a SystemAdmin below SuperAdmin may restore
\* the backups whose restore_allowed_username decrypts to get_username()
restore_checked(role, name, cs, events, result, file, backup_code, tables) ==
    IF has_required_role(role, SystemAdmin) /\ ~has_required_role(role, SuperAdmin)
    THEN IF name # decrypt_field(cs, result.restore_allowed_username).val
         THEN restore_refused(
                Append(events \o get_username_events(name),
                       Event(STR_dbbackup, STR_Database_restore_denied,
                             STR_User_ \o NameStr(name) \o STR__Allowed_
                                \o NameStr(decrypt_field(cs, result.restore_allowed_username).val),
                             TRUE)), tables)
         ELSE restore_from_zip(events \o get_username_events(name), file.zip, backup_code, tables)
    ELSE restore_from_zip(events, file.zip, backup_code, tables)

\* lines 129-146 of restore_backup: the row and the file of backup_code
restore_found(role, name, cs, events, result, file, backup_code, tables) ==
    IF result = <<>>
    THEN restore_refused(Append(events, Event(STR_dbbackup, STR_Backup_not_found,
                                              STR_Code_ \o backup_code, TRUE)), tables)
    ELSE IF file = <<>>
    THEN restore_refused(Append(events, Event(STR_dbbackup, STR_Backup_file_not_found_on_disk,
                                              STR_Path_ \o result[1].path, TRUE)), tables)
    ELSE restore_checked(role, name, cs, events, result[1], file[1], backup_code, tables)

\* the first log_event of restore_backup, get_username() being evaluated for it
restore_backup_started(name, backup_code) ==
    Append(get_username_events(name),
           Event(STR_dbbackup, STR_Database_restore_started,
                 STR_initiated_by_ \o NameStr(name) \o STR__code_ \o backup_code, FALSE))

\* lines 126-127 of restore_backup
restore_backup_denied(name, backup_code, tables) ==
    restore_refused(
        Append(restore_backup_started(name, backup_code) \o get_username_events(name),
               Event(STR_dbbackup, STR_Database_restore_without_permission,
                     STR_initiated_by_ \o NameStr(name), TRUE)), tables)

\* the except clause of restore_backup for the SELECT without a backups table
restore_backup_no_table(name, backup_code, tables) ==
    restore_refused(
        Append(restore_backup_started(name, backup_code),
               Event(STR_dbbackup, STR_Database_restore_failed,
                     STR_Error_ \o STR_no_such_table_backups, TRUE)), tables)

\* fetchone() of the SELECT of line 133
backup_row(rows, backup_code) == First(rows, LAMBDA r : r.backup_code = backup_code)

\* the file at the path of that row, if it exists (line 144)
backup_file(rows, files, backup_code) ==
    First(files, LAMBDA f : backup_row(rows, backup_code) # <<>>
                            /\ f.path = backup_row(rows, backup_code)[1].path)

\* restore_backup without the test of restore_allowed_username
restore_backup_any_system_admin(role, name, cs, tables, table_exists, rows, files, backup_code) ==
    IF ~has_required_role(role, SystemAdmin)
    THEN restore_backup_denied(name, backup_code, tables)
    ELSE IF ~table_exists
    THEN restore_backup_no_table(name, backup_code, tables)
    ELSE restore_found(SuperAdmin, name, cs, restore_backup_started(name, backup_code),
            backup_row(rows, backup_code), backup_file(rows, files, backup_code),
            backup_code, tables)

\* restore_backup(backup_code): rows are the rows of the backups table, files
\* the files under backups/
restore_backup(role, name, cs, tables, table_exists, rows, files, backup_code) ==
    IF ~has_required_role(role, SystemAdmin)
    THEN restore_backup_denied(name, backup_code, tables)
    ELSE IF ~table_exists
    THEN restore_backup_no_table(name, backup_code, tables)
    ELSE restore_found(role, name, cs, restore_backup_started(name, backup_code),
            backup_row(rows, backup_code), backup_file(rows, files, backup_code),
            backup_code, tables)

(***************************************************************************)
(* Inputs.                                                                 *)
(***************************************************************************)
PlainChars == {97, 233}                      \* 'a' and a two-byte character
Plaintexts == SeqsUpTo(PlainChars, MaxPlainLen)

\* the tokens of value under the keys other than cs
ForeignTokens(cs, value) == {encrypt_field(k, iv, value).val : k \in Keys \ {cs}, iv \in IVs}

FlipBit(c, b) == IF (c \div (2 ^ b)) % 2 = 1 THEN c - 2 ^ b ELSE c + 2 ^ b

\* a stored token with one bit of one character flipped (the lowest two bits,
\* the case bit or the top bit), or with one character added
Tampered(t) ==
    {[t EXCEPT ![i] = FlipBit(t[i], b)] : i \in 1..Len(t), b \in {0, 1, 5, 7}}
    \cup {t \o <<c>> : c \in {10, 33}} \cup {<<c>> \o t : c \in {10, 33}}

\* text that is no token at all: "", "a", "abcd", "ab=="
Malformed == {<<>>, <<97>>, <<97, 98, 99, 100>>, <<97, 98, 61, 61>>}

\* what decrypt_field is called with: nothing, text that is no token, and, once
\* encrypt_field has returned a token, that token, the changed copies of it
\* and the tokens of the same value under the other keys
DecryptInputs ==
    {None} \cup Malformed
    \cup (IF last_enc.exc = "none" /\ last_enc.val # None
          THEN {last_enc.val} \cup Tampered(last_enc.val) \cup ForeignTokens(last_enc.cs, last_enc.arg)
          ELSE {})

HashPasswords == {<<112>>, <<113>>}                                  \* "p" "q"
HashUsernames == {<<97, 98>>, <<97, 98, 99>>, <<97, 98, 100>>,       \* "ab" "abc" "abd"
                  <<97, 98, 99, 100>>, <<97, 98, 99, 101>>,          \* "abcd" "abce"
                  <<97, 98, 99, 100, 101, 102, 103, 104, 105, 106>>} \* "abcdefghij"
HashFirstNames == {<<97>>, <<97, 98>>}                               \* "a" "ab"
HashLastNames == {<<98>>, <<97, 98>>}                                \* "b" "ab"
HashDates == {<<49>>, <<50>>}                                        \* "1" "2"
HashArgs == [password : HashPasswords, username : HashUsernames, first_name : HashFirstNames,
             last_name : HashLastNames, registration_date : HashDates]

NoCall == [arg |-> None, cs |-> NoKey, exc |-> "nocall", val |-> None]
NoHashCall == [args |-> None, exc |-> "nocall", val |-> None]

(***************************************************************************)
(* Operations.                                                             *)
(***************************************************************************)
\* initialize_encryption() generating a key whether or not the key file exists
initialize_encryption_new_key ==
    /\ \E key \in Keys :
        /\ key_file' = key
        /\ cipher_suite' = key
    /\ UNCHANGED <<probeVars, authVars>>

\* initialize_encryption(): load the key file if it exists, else generate one
initialize_encryption ==
    /\ IF key_file # NoKey
       THEN /\ cipher_suite' = key_file
            /\ UNCHANGED key_file
       ELSE \E key \in Keys :
            /\ key_file' = key
            /\ cipher_suite' = key
    /\ UNCHANGED <<probeVars, authVars>>

CallEncryptField ==
    \E value \in Plaintexts \cup {None}, iv \in IVs :
        LET r == encrypt_field(cipher_suite, iv, value)
        IN  /\ last_enc' = [arg |-> value, cs |-> cipher_suite, exc |-> r.exc, val |-> r.val]
            /\ last_dec' = NoCall
            /\ UNCHANGED <<key_file, cipher_suite, hash_prev, hash_last, authVars>>

CallDecryptField ==
    \E x \in DecryptInputs :
        LET r == decrypt_field(cipher_suite, x)
        IN  /\ last_dec' = [arg |-> x, cs |-> cipher_suite, exc |-> r.exc, val |-> r.val]
            /\ UNCHANGED <<key_file, cipher_suite, last_enc, hash_prev, hash_last, authVars>>

CallHashPassword ==
    \E a \in HashArgs :
        LET r == hashing_hash_password(a.password, a.username, a.first_name,
                                       a.last_name, a.registration_date)
        IN  /\ hash_prev' = hash_last
            /\ hash_last' = [args |-> a, exc |-> r.exc, val |-> r.val]
            /\ UNCHANGED <<key_file, cipher_suite, last_enc, last_dec, authVars>>

(***************************************************************************)
(* The session: seeding, the role of the principal, login.                 *)
(***************************************************************************)
\* the session as a call found it
NoPre == [log_len |-> 0, role |-> NoRole, name |-> None, in_name |-> None]
Pre == [log_len |-> Len(log), role |-> LoggedUserRole, name |-> LoggedUserName,
        in_name |-> logged_in_username]

\* ret: the operation, its arguments, whether it succeeded, the role and the
\* value it returned, whether the store answered, and the session before it;
\* of a call that reads the console: the exception that left it, the log_event
\* calls and input() calls it made, and whether it called a menu function
NoAuthCall == [op |-> "nocall", arg |-> <<>>, ok |-> FALSE, role |-> None,
               val |-> None, db |-> "ok", pre |-> NoPre, changed |-> FALSE,
               exc |-> "none", events |-> <<>>, reads |-> 0, called |-> FALSE]

\* ret of a call that returned the result r
MenuRet(op, arg, r, pre) ==
    [NoAuthCall EXCEPT !.op = op, !.arg = arg, !.ok = (r.exc = "none"), !.val = r.val,
                       !.pre = pre, !.exc = r.exc, !.events = r.events, !.reads = r.reads,
                       !.called = r.called]
Ret(op, arg, ok, role) == [NoAuthCall EXCEPT !.op = op, !.arg = arg, !.ok = ok, !.role = role]

\* whether the SELECT of login answers or raises sqlite3.Error
DbOutcomes == {"ok", "error"}

\* datetime.now().isoformat() readings: "T1" "T2"
Dates == {<<84, 49>>, <<84, 50>>}

\* role names handed to set_logged_user_role: the three names, "SYSTEM_ADMIN",
\* "Super_Admin", "Service_Engineer", and "admin", "", "system_admin " which
\* are no role names
RoleNameInputs ==
    {STR_service_engineer, STR_system_admin, STR_super_admin,
     <<83, 89, 83, 84, 69, 77, 95, 65, 68, 77, 73, 78>>,
     <<83, 117, 112, 101, 114, 95, 65, 100, 109, 105, 110>>,
     <<83, 101, 114, 118, 105, 99, 101, 95, 69, 110, 103, 105, 110, 101, 101, 114>>,
     <<97, 100, 109, 105, 110>>, <<>>,
     <<115, 121, 115, 116, 101, 109, 95, 97, 100, 109, 105, 110, 32>>}

\* "sysadmin1" "SysAdmin1" "nobody" "super_user" "Super_User"
LoginUsernames ==
    {<<115, 121, 115, 97, 100, 109, 105, 110, 49>>,
     <<83, 121, 115, 65, 100, 109, 105, 110, 49>>,
     <<110, 111, 98, 111, 100, 121>>, STR_super_user,
     <<83, 117, 112, 101, 114, 95, 85, 115, 101, 114>>}

\* "SecurePass_456!" "wrong" "Admin_123?"
LoginPasswords ==
    {<<83, 101, 99, 117, 114, 101, 80, 97, 115, 115, 95, 52, 53, 54, 33>>,
     <<119, 114, 111, 110, 103>>, STR_Admin_123}

\* main() has run its start-up calls (main.py:25-28)
Started == users # <<>>

\* seed_users(): initialize_encryption(), reset_database(), then the insert
\* loop.  main() calls it once, at process start, before anything else uses
\* the session, and so does the model.
seed_users_call ==
    \E key \in (IF key_file # NoKey THEN {key_file} ELSE Keys), iv \in IVs, reg_date \in Dates :
        /\ key_file' = key
        /\ cipher_suite' = key
        /\ users' = seed_loop(<<>>, users_to_add, key, iv, reg_date)

seed_users ==
    /\ ~Started
    /\ seed_users_call
    /\ UNCHANGED <<probeVars, LoggedUserRole, logged_in_username, log_key_file, log, ret,
                   sessionVars>>

\* set_logged_user_role(role)
set_logged_user_role ==
    \E role \in RoleNameInputs :
        /\ Started
        /\ LoggedUserRole' = role_map_get(role)
        /\ ret' = Ret("set_logged_user_role", <<role>>, TRUE, None)
        /\ UNCHANGED <<key_file, cipher_suite, probeVars, users, logged_in_username,
                       log_key_file, log, sessionVars>>

\* a call of has_required_role(required_role)
CallHasRequiredRole ==
    \E required_role \in UserRole :
        /\ Started
        /\ ret' = Ret("has_required_role", <<required_role>>,
                      has_required_role(LoggedUserRole, required_role), None)
        /\ UNCHANGED <<key_file, cipher_suite, probeVars, users, LoggedUserRole,
                       logged_in_username, log_key_file, log, sessionVars>>

\* a call of login(username, password)
CallLogin ==
    /\ Started
    /\ \E username \in LoginUsernames, password \in LoginPasswords, db \in DbOutcomes :
        \E r \in {login(cipher_suite, users, username, password, db)} :
            /\ Len(log) + Len(r.events) <= MaxLog
            /\ log_events(r.events)
            /\ ret' = [NoAuthCall EXCEPT !.op = "login", !.arg = <<username, password>>,
                       !.ok = r.is_valid, !.role = r.role,
                       !.val = None, !.db = db, !.pre = Pre]
            /\ UNCHANGED <<key_file, cipher_suite, probeVars, users, LoggedUserRole,
                           logged_in_username, LoggedUserName, corrupted, backupVars, pc>>

\* authenticate_user(username, password): what it does to the log and the
\* session, and what it returns (val: None, or the username and role of the dict)
authenticate_user_call(username, password, db) ==
    \E r \in {login(cipher_suite, users, username, password, db)} :
        /\ Len(log) + Len(r.events) <= MaxLog
        /\ log_events(r.events)
        /\ IF ~r.is_valid
           THEN /\ ret' = [NoAuthCall EXCEPT !.op = "authenticate_user", !.arg = <<username, password>>,
                           !.ok = FALSE, !.role = None,
                           !.val = None, !.db = db, !.pre = Pre]
                /\ UNCHANGED <<LoggedUserRole, logged_in_username>>
           ELSE /\ LoggedUserRole' = role_map_get(r.role)
                /\ logged_in_username' = username
                /\ ret' = [NoAuthCall EXCEPT !.op = "authenticate_user", !.arg = <<username, password>>,
                           !.ok = TRUE, !.role = r.role,
                           !.val = <<username, r.role>>, !.db = db, !.pre = Pre]

authenticate_user ==
    /\ Started
    /\ \E username \in LoginUsernames, password \in LoginPasswords, db \in DbOutcomes :
        authenticate_user_call(username, password, db)
    /\ UNCHANGED <<key_file, cipher_suite, probeVars, users, LoggedUserName, corrupted, backupVars, pc>>

\* get_username()
get_username ==
    /\ Started
    /\ IF LoggedUserName # None
       THEN /\ ret' = [NoAuthCall EXCEPT !.op = "get_username", !.ok = TRUE,
                                         !.val = LoggedUserName, !.pre = Pre]
            /\ UNCHANGED <<log_key_file, log, written>>
       ELSE /\ Len(log) < MaxLog
            /\ log_events(<<Event(STR_unauthorized, STR_Attempted_function_access,
                                  STR_get_username_called, TRUE)>>)
            /\ ret' = [NoAuthCall EXCEPT !.op = "get_username", !.pre = Pre]
    /\ UNCHANGED <<key_file, cipher_suite, probeVars, users, LoggedUserRole,
                   logged_in_username, LoggedUserName, corrupted, backupVars, pc>>

\* main(), lines 25-28: the start-up calls
main_boot ==
    /\ pc = "boot"
    /\ seed_users_call
    /\ pc' = "login"
    /\ UNCHANGED <<probeVars, LoggedUserRole, logged_in_username, log_key_file, log, ret,
                   LoggedUserName, written, corrupted, backupVars>>

\* main(), lines 30-82: authenticate_user with the credentials entered; exit(0)
\* when it returns None, otherwise set_logged_user_role and set_logged_username
\* from the dict it returned, and the menu of the first role that is granted
main_login ==
    /\ pc = "login"
    /\ \E username \in LoginUsernames, password \in LoginPasswords, db \in DbOutcomes :
        /\ authenticate_user_call(username, password, db)
        /\ IF ~ret'.ok
           THEN /\ pc' = "exit"
                /\ UNCHANGED LoggedUserName
           ELSE /\ LoggedUserRole' = role_map_get(ret'.val[2])
                /\ LoggedUserName' = ret'.val[1]
                /\ pc' = IF has_required_role(LoggedUserRole', ServiceEngineer)
                         THEN "menu" ELSE "exit"
    /\ UNCHANGED <<key_file, cipher_suite, probeVars, users, corrupted, backupVars>>

\* a menu calls has_required_role(required_role)
menu_has_required_role ==
    /\ pc = "menu"
    /\ CallHasRequiredRole

\* a menu calls get_username()
menu_get_username ==
    /\ pc = "menu"
    /\ get_username

Init ==
    /\ key_file = NoKey
    /\ cipher_suite = NoKey
    /\ last_enc = NoCall
    /\ last_dec = NoCall
    /\ hash_prev = NoHashCall
    /\ hash_last = NoHashCall
    /\ users = <<>>
    /\ LoggedUserRole = NoRole
    /\ logged_in_username = None
    /\ log_key_file = NoKey
    /\ log = <<>>
    /\ ret = NoAuthCall
    /\ LoggedUserName = None
    /\ written = <<>>
    /\ corrupted = 0
    /\ travellers = <<>>
    /\ scooters = <<>>
    /\ backups = [exists |-> FALSE, rows |-> <<>>]
    /\ backup_files = <<>>
    /\ pc = "boot"

\* the field cipher
NextCipher == initialize_encryption \/ CallEncryptField \/ CallDecryptField
SpecCipher == Init /\ [][NextCipher]_vars

\* the credential hasher
NextHash == CallHashPassword
SpecHash == Init /\ [][NextHash]_vars

\* authorization: the role of the principal and the checks against it
NextAuth ==
    \/ initialize_encryption \/ seed_users \/ set_logged_user_role \/ CallHasRequiredRole
SpecAuth == Init /\ [][NextAuth]_vars

\* the log_event calls made while the log is examined: two actors, "u" and
\* "u|Yes", the action "x", no extra_info, either flag
LogEvents ==
    {Event(username, <<120>>, <<>>, suspicious) :
        username \in {<<117>>, <<117, BAR, 89, 101, 115>>}, suspicious \in BOOLEAN}

\* a call of log_event(username, action, extra_info, suspicious)
CallLogEvent ==
    /\ Len(log) < MaxEvents
    /\ \E e \in LogEvents : log_events(<<e>>)
    /\ ret' = Ret("log_event", <<>>, TRUE, None)
    /\ UNCHANGED <<key_file, cipher_suite, probeVars, users, LoggedUserRole,
                   logged_in_username, LoggedUserName, corrupted, backupVars, pc>>

\* the position of the last alphabet character of line
LastData(line) == Greatest({i \in 1..Len(line) : IsData(line[i])})

\* what damage on disk can make of a line: one of the two lowest bits of its
\* first or of its last alphabet character flipped, a '!' added, its last
\* character lost, or nothing left of it
Damaged(line) ==
    ({[line EXCEPT ![i] = FlipBit(line[i], b)] : i \in {1, LastData(line)}, b \in {0, 1}}
        \cup {line \o <<33>>, SubSeq(line, 1, Len(line) - 1), <<>>}) \ {line}

\* one line of logs/log.txt is damaged on disk; this happens to one line only
corrupt_line ==
    /\ corrupted = 0
    /\ \E i \in 1..Len(log) :
        \E line \in Damaged(log[i]) :
            /\ log' = [log EXCEPT ![i] = line]
            /\ corrupted' = i
    /\ ret' = Ret("corrupt_line", <<>>, TRUE, None)
    /\ UNCHANGED <<key_file, cipher_suite, probeVars, users, LoggedUserRole,
                   logged_in_username, log_key_file, LoggedUserName, written,
                   backupVars, pc>>

\* a call of read_logs(): _get_fernet() creates the key file if there is none
CallReadLogs ==
    /\ \E key \in (IF log_key_file = NoKey THEN Keys ELSE {log_key_file}) :
        /\ log_key_file' = key
        /\ ret' = [NoAuthCall EXCEPT !.op = "read_logs", !.ok = TRUE,
                                     !.val = read_logs(key, log)]
    /\ UNCHANGED <<key_file, cipher_suite, probeVars, users, LoggedUserRole,
                   logged_in_username, log, sessionVars>>

\* a call of get_unread_suspicious_logs()
CallGetUnreadSuspiciousLogs ==
    /\ \E key \in (IF log_key_file = NoKey THEN Keys ELSE {log_key_file}) :
        /\ log_key_file' = key
        /\ ret' = [NoAuthCall EXCEPT !.op = "get_unread_suspicious_logs", !.ok = TRUE,
                                     !.val = get_unread_suspicious_logs(read_logs(key, log))]
    /\ UNCHANGED <<key_file, cipher_suite, probeVars, users, LoggedUserRole,
                   logged_in_username, log, sessionVars>>

\* the audit log: written, damaged, read
NextLog == CallLogEvent \/ corrupt_line \/ CallReadLogs \/ CallGetUnreadSuspiciousLogs
SpecLog == Init /\ [][NextLog]_vars

\* the process ends and a new one starts: the module globals are as at import
\* again (_cipher_suite, LoggedUserRole, LoggedUserName, _logged_in_username
\* are None) and the files are as they were left; ret.val keeps the token that
\* was stored before
restart ==
    /\ cipher_suite' = NoKey
    /\ LoggedUserRole' = NoRole
    /\ LoggedUserName' = None
    /\ logged_in_username' = None
    /\ pc' = "boot"
    /\ last_dec' = NoCall
    /\ ret' = [NoAuthCall EXCEPT !.op = "restart", !.val = last_enc.val]
    /\ UNCHANGED <<key_file, last_enc, hash_prev, hash_last, users, log_key_file,
                   log, written, corrupted, backupVars>>

\* decrypt_field called with the token encrypt_field returned earlier
CallDecryptStored ==
    /\ last_enc.exc = "none"
    /\ LET r == decrypt_field(cipher_suite, last_enc.val)
       IN  last_dec' = [arg |-> last_enc.val, cs |-> cipher_suite, exc |-> r.exc, val |-> r.val]
    /\ UNCHANGED <<key_file, cipher_suite, last_enc, hash_prev, hash_last, authVars>>

\* the first log_event call of the installation
FirstLogEvent == log = <<>> /\ CallLogEvent

\* the two key files over the life of the installation
NextKeys ==
    \/ initialize_encryption
    \/ restart
    \/ CallEncryptField
    \/ CallDecryptStored
    \/ FirstLogEvent
    \/ CallReadLogs
SpecKeys == Init /\ [][NextKeys]_vars

\* the menus: header "M", items "1" (title "A") and "2" (title "B")
MaxAttempts == 2
MaxBackupLog == 3   \* log lines up to which create_backup and restore_backup are called
MaxBackups == 1     \* rows of the backups table
MaxTravellers == 1  \* rows of the travellers table
RoleOrNone == UserRole \cup {NoRole}
Item(key, title, required_role, function) ==
    [key |-> key, title |-> title, required_role |-> required_role, function |-> function]

\* the menus ask_menu_choice is called with: item "1" with any required_role,
\* and item "1" for SuperAdmin followed by an item "2" that requires none
AskMenus ==
    {<<Item(<<49>>, <<65>>, rr, "value")>> : rr \in RoleOrNone}
    \cup {<<Item(<<49>>, <<65>>, SuperAdmin, "value"), Item(<<50>>, <<66>>, NoRole, "value")>>}

\* the menus execute_menu_selection is called with: item "1" with any
\* required_role, whose function returns a value, returns None, raises, or is
\* None
ExecMenus ==
    {<<Item(<<49>>, <<65>>, rr, fn)>> :
        rr \in RoleOrNone, fn \in {"value", "none", "raise", "notcallable"}}

\* what the console holds: the lines "1" and "2" and Ctrl-C, n of them at most
ConsoleInputs(n) == SeqsUpTo({Line(<<49>>), Line(<<50>>), KeyboardInterrupt}, n)

\* the principal gets a role: set_logged_user_role(role)
menu_set_logged_user_role ==
    /\ \E role \in {STR_service_engineer, STR_system_admin, STR_super_admin} :
            LoggedUserRole' = role_map_get(role)
    /\ ret' = Ret("set_logged_user_role", <<>>, TRUE, None)
    /\ UNCHANGED <<key_file, cipher_suite, probeVars, users, logged_in_username,
                   log_key_file, log, sessionVars>>

\* a call of ask_menu_choice(menu_items, "M", max_attempts, required_role) on a
\* console whose inputs the call reads to the end
CallAskMenuChoice ==
    /\ Len(log) < MaxLog
    /\ \E menu_items \in AskMenus, required_role \in RoleOrNone, max_attempts \in 1..MaxAttempts :
        \E inputs \in {i \in ConsoleInputs(2 * max_attempts) :
                        ask_menu_choice(LoggedUserRole, menu_items, <<77>>, max_attempts,
                                        required_role, i).reads >= Len(i)} :
            /\ log_events(ask_menu_choice(LoggedUserRole, menu_items, <<77>>, max_attempts,
                                          required_role, inputs).events)
            /\ ret' = MenuRet("ask_menu_choice",
                              <<menu_items, max_attempts, required_role, inputs>>,
                              ask_menu_choice(LoggedUserRole, menu_items, <<77>>,
                                              max_attempts, required_role, inputs), Pre)
    /\ UNCHANGED <<key_file, cipher_suite, probeVars, users, LoggedUserRole,
                   logged_in_username, LoggedUserName, corrupted, backupVars, pc>>

\* a call of execute_menu_selection(menu_items, selected_choice)
CallExecuteMenuSelection ==
    /\ Len(log) < MaxLog
    /\ \E menu_items \in ExecMenus, selected_choice \in {<<49>>, <<50>>} :
        \E inputs \in {i \in ConsoleInputs(1) :
                        execute_menu_selection(LoggedUserRole, menu_items, selected_choice,
                                               i).reads >= Len(i)} :
            /\ log_events(execute_menu_selection(LoggedUserRole, menu_items, selected_choice,
                                                 inputs).events)
            /\ ret' = MenuRet("execute_menu_selection",
                              <<menu_items, selected_choice, inputs>>,
                              execute_menu_selection(LoggedUserRole, menu_items,
                                                     selected_choice, inputs), Pre)
    /\ UNCHANGED <<key_file, cipher_suite, probeVars, users, LoggedUserRole,
                   logged_in_username, LoggedUserName, corrupted, backupVars, pc>>

\* the menu system under a principal with a role or without one
NextMenu == menu_set_logged_user_role \/ CallAskMenuChoice \/ CallExecuteMenuSelection
SpecMenu == Init /\ [][NextMenu]_vars

\* one run of main(): start-up, the login, the menus
(***************************************************************************)
(* The backup functions at work: a principal is set, travellers are        *)
(* registered, backups are made and restored.  setup_database creates no   *)
(* backups table (Models/database.py:13-75), so a database it has made     *)
(* makes every INSERT INTO backups fail; create_backups_table is the step  *)
(* outside the program that adds the table the two functions work on.      *)
(* main() initialises the cipher before it shows a menu (main.py:25), so   *)
(* every step but initialize_encryption waits for the cipher.              *)
(***************************************************************************)
Tables == [users |-> users, travellers |-> travellers, scooters |-> scooters]

BackupRet(op, arg, r) ==
    [NoAuthCall EXCEPT !.op = op, !.arg = arg, !.ok = r.ok, !.val = r.val,
                       !.pre = Pre, !.events = r.events,
                       !.changed = (r.tables # Tables)]

\* the principals main.py sets after a login (role and username)
Principals ==
    { [role |-> ServiceEngineer, name |-> users_to_add[3].username],
      [role |-> SystemAdmin, name |-> users_to_add[2].username],
      [role |-> SystemAdmin, name |-> STR_super_user],
      [role |-> SuperAdmin, name |-> users_to_add[1].username] }

Birthdays == {<<49>>, <<49, 44, 50>>}   \* "1" and "1,2"
BackupUsernames == {users_to_add[2].username}
BackupCodes ==
    {backups.rows[i].backup_code : i \in 1..Len(backups.rows)} \cup {<<88>>}

\* a file written under a path replaces the file of that path
write_files(files, new) ==
    IF new = <<>> THEN files
    ELSE SelectSeq(files, LAMBDA f : f.path # new[1].path) \o new

create_backups_table ==
    /\ cipher_suite # NoKey
    /\ ~backups.exists
    /\ backups' = [backups EXCEPT !.exists = TRUE]
    /\ UNCHANGED <<ret, key_file, cipher_suite, probeVars, users, LoggedUserRole,
                   logged_in_username, log_key_file, log, LoggedUserName, written,
                   corrupted, travellers, scooters, backup_files, pc>>

set_principal ==
    /\ cipher_suite # NoKey
    /\ \E p \in Principals :
        /\ LoggedUserRole' = p.role
        /\ LoggedUserName' = p.name
    /\ UNCHANGED <<ret, key_file, cipher_suite, probeVars, users, logged_in_username,
                   log_key_file, log, written, corrupted, backupVars, pc>>

create_traveller ==
    /\ cipher_suite # NoKey
    /\ Len(travellers) < MaxTravellers
    /\ \E birthday \in Birthdays : travellers' = Append(travellers, <<birthday>>)
    /\ UNCHANGED <<ret, key_file, cipher_suite, probeVars, users, LoggedUserRole,
                   logged_in_username, log_key_file, log, LoggedUserName, written,
                   corrupted, scooters, backups, backup_files, pc>>

delete_backup_file ==
    /\ backup_files # <<>>
    /\ backup_files' = <<>>
    /\ UNCHANGED <<ret, key_file, cipher_suite, probeVars, users, LoggedUserRole,
                   logged_in_username, log_key_file, log, LoggedUserName, written,
                   corrupted, travellers, scooters, backups, pc>>

create_backup_call(r, username) ==
    /\ cipher_suite # NoKey
    /\ Len(log) <= MaxBackupLog
    /\ Len(backups.rows) + Len(r.rows) <= MaxBackups
    /\ log_events(r.events)
    /\ backup_files' = write_files(backup_files, r.files)
    /\ backups' = [backups EXCEPT !.rows = @ \o r.rows]
    /\ ret' = BackupRet("create_backup", <<username>>, r)

CallCreateBackup ==
    /\ \E username \in BackupUsernames, iv \in IVs, timestamp \in Nows :
        create_backup_call(
            create_backup(LoggedUserRole, LoggedUserName, cipher_suite, iv, timestamp,
                          Tables, backups.exists, username), username)
    /\ UNCHANGED <<key_file, cipher_suite, probeVars, users, LoggedUserRole,
                   logged_in_username, LoggedUserName, corrupted, travellers, scooters,
                   pc>>

restore_backup_call(r, backup_code) ==
    /\ cipher_suite # NoKey
    /\ Len(log) <= MaxBackupLog
    /\ log_events(r.events)
    /\ users' = r.tables.users
    /\ travellers' = r.tables.travellers
    /\ scooters' = r.tables.scooters
    /\ ret' = BackupRet("restore_backup", <<backup_code>>, r)

CallRestoreBackup ==
    /\ \E backup_code \in BackupCodes :
        restore_backup_call(
            restore_backup(LoggedUserRole, LoggedUserName, cipher_suite, Tables,
                           backups.exists, backups.rows, backup_files, backup_code),
            backup_code)
    /\ UNCHANGED <<key_file, cipher_suite, probeVars, LoggedUserRole,
                   logged_in_username, LoggedUserName, corrupted, backups, backup_files,
                   pc>>

NextBackup ==
    \/ initialize_encryption
    \/ create_backups_table
    \/ set_principal
    \/ create_traveller
    \/ CallCreateBackup
    \/ delete_backup_file
    \/ CallRestoreBackup
SpecBackup == Init /\ [][NextBackup]_vars


NextSession == main_boot \/ main_login \/ menu_has_required_role \/ menu_get_username
SpecSession == Init /\ [][NextSession]_vars

\* authentication: login and authenticate_user on the seeded store
NewPasswords == {<<78, 101, 119, 95, 80, 97, 115, 115, 49, 33>>}   \* "New_Pass1!"

CallUpdateUserPassword ==
    /\ Started
    /\ \E username \in LoginUsernames, current_password \in LoginPasswords,
          new_password \in NewPasswords :
        \E r \in {update_user_password(cipher_suite, users, username, current_password,
                                       new_password)} :
            /\ users' = r.rows
            /\ ret' = [NoAuthCall EXCEPT !.op = "update_user_password",
                                         !.arg = <<username, current_password, new_password>>,
                                         !.ok = r.val, !.pre = Pre,
                                         !.changed = (r.rows # users)]
    /\ UNCHANGED <<key_file, cipher_suite, probeVars, LoggedUserRole, logged_in_username,
                   log_key_file, log, LoggedUserName, written, corrupted, backupVars, pc>>

NextLogin == seed_users \/ CallLogin \/ authenticate_user

\* users authenticate and the session identity is asked for
NextIdentity == seed_users \/ authenticate_user \/ get_username
SpecIdentity == Init /\ [][NextIdentity]_vars

\* passwords are changed and logins are tried on the seeded user store
NextPassword == seed_users \/ CallUpdateUserPassword \/ CallLogin
SpecPassword == Init /\ [][NextPassword]_vars
SpecLogin == Init /\ [][NextLogin]_vars

(***************************************************************************)
(* The field cipher: C1 - C4.                                              *)
(***************************************************************************)
\* x is a token encrypt_field can return under the key cs
IsToken(cs, x) == \E iv \in IVs, v \in Plaintexts : x = encrypt_field(cs, iv, v).val

\* the latest decrypt_field call was made on a changed copy of the token of the
\* latest encrypt_field call, or on a token of its value under another key
DecryptedForgery ==
    /\ last_enc.exc = "none" /\ last_enc.arg # None
    /\ last_dec.exc # "nocall"
    /\ last_dec.arg \in Tampered(last_enc.val) \cup ForeignTokens(last_enc.cs, last_enc.arg)

\* C1: with the key loaded, decrypt_field applied to the token that
\* encrypt_field returned for a string s returns s.
C1_RoundTrip ==
    (/\ last_enc.exc = "none" /\ last_enc.arg # None
     /\ last_dec.exc # "nocall" /\ last_dec.cs # NoKey
     /\ last_dec.arg = last_enc.val)
    => (last_dec.exc = "none" /\ last_dec.val = last_enc.arg)

C1_Witness ==
    /\ last_enc.exc = "none" /\ last_enc.arg # None /\ Len(last_enc.arg) = MaxPlainLen
    /\ last_dec.exc = "none" /\ last_dec.cs # NoKey
    /\ last_dec.arg = last_enc.val
    /\ last_dec.val = last_enc.arg

\* C2: with the key loaded, decrypt_field called with anything that is not a
\* token of the active key (a changed token, a token of another key, text
\* that is no token) raises nothing and returns its argument, and so does not
\* return the plaintext the token was made from.
C2_NonTokenReturnedUnchanged ==
    (/\ last_dec.exc # "nocall" /\ last_dec.cs # NoKey
     /\ ~IsToken(last_dec.cs, last_dec.arg))
    => /\ last_dec.exc = "none"
       /\ last_dec.val = last_dec.arg
       /\ DecryptedForgery => last_dec.val # last_enc.arg

\* C3: a call of encrypt_field or decrypt_field with a value, made while the
\* key is not loaded, raises.
C3_UninitializedRaises ==
    /\ (last_enc.exc # "nocall" /\ last_enc.cs = NoKey /\ last_enc.arg # None)
       => last_enc.exc # "none"
    /\ (last_dec.exc # "nocall" /\ last_dec.cs = NoKey /\ last_dec.arg # None)
       => last_dec.exc # "none"

\* C4: encrypt_field(None) returns None and decrypt_field(None) returns None,
\* whether or not the key is loaded.
C4_NonePassthrough ==
    /\ (last_enc.exc # "nocall" /\ last_enc.arg = None)
       => (last_enc.exc = "none" /\ last_enc.val = None)
    /\ (last_dec.exc # "nocall" /\ last_dec.arg = None)
       => (last_dec.exc = "none" /\ last_dec.val = None)

C4_Witness ==
    /\ last_enc.exc = "none" /\ last_enc.arg = None /\ last_enc.val = None
    /\ last_dec.exc = "none" /\ last_dec.arg = None /\ last_dec.val = None

(***************************************************************************)
(* The credential hasher: C5, C6.                                          *)
(***************************************************************************)
HashFields == {"password", "username", "first_name", "last_name", "registration_date"}

\* the arguments in which two calls differ
DiffFields(a, b) == {f \in HashFields : a[f] # b[f]}

\* two usernames the salt cannot tell apart
SameSaltPart(u1, u2) == Prefix(u1, 3) = Prefix(u2, 3) /\ Len(u1) = Len(u2)

TwoDigests == hash_prev.exc = "none" /\ hash_last.exc = "none"

\* C5 as stated: equal arguments give equal digests, and two calls that differ
\* in exactly one of the five arguments give different digests.
C5_AnyOneArgumentChangesDigest ==
    TwoDigests =>
        LET d == DiffFields(hash_prev.args, hash_last.args)
        IN  /\ d = {} => hash_prev.val = hash_last.val
            /\ Cardinality(d) = 1 => hash_prev.val # hash_last.val

\* C5 as amended: equal arguments give equal digests, and two calls that
\* differ in exactly one argument give different digests unless that argument
\* is the username and the two usernames have the same first three characters
\* and the same length, in which case the digests are equal.
C5_DigestChangesWithSaltInputs ==
    TwoDigests =>
        LET d == DiffFields(hash_prev.args, hash_last.args)
        IN  /\ d = {} => hash_prev.val = hash_last.val
            /\ Cardinality(d) = 1 =>
                (hash_prev.val = hash_last.val
                 <=> (d = {"username"}
                      /\ SameSaltPart(hash_prev.args.username, hash_last.args.username)))

C5_Witness ==
    /\ TwoDigests
    /\ DiffFields(hash_prev.args, hash_last.args) = {"username"}
    /\ ~SameSaltPart(hash_prev.args.username, hash_last.args.username)
    /\ hash_prev.val # hash_last.val

\* C6: hash_password raises ValueError and returns no digest when the username
\* has fewer than 3 characters, and does not raise when it has 3 or more.
C6_ShortUsernameRejected ==
    hash_last.exc # "nocall" =>
        IF Len(hash_last.args.username) < 3
        THEN hash_last.exc = "ValueError" /\ hash_last.val = None
        ELSE hash_last.exc = "none" /\ hash_last.val # None

C6_Witness ==
    /\ hash_last.exc = "ValueError" /\ Len(hash_last.args.username) = 2
    /\ hash_prev.exc = "none" /\ Len(hash_prev.args.username) = 3

(***************************************************************************)
(* The role hierarchy and the principal: C7, C8.                           *)
(***************************************************************************)
\* the pairs <<role of the principal, required role>> the hierarchy grants
Granted ==
    {<<ServiceEngineer, ServiceEngineer>>,
     <<SystemAdmin, ServiceEngineer>>, <<SystemAdmin, SystemAdmin>>,
     <<SuperAdmin, ServiceEngineer>>, <<SuperAdmin, SystemAdmin>>, <<SuperAdmin, SuperAdmin>>}

\* C7: has_required_role(required) returns False while no role is set, and
\* otherwise True exactly when the role of the principal is at least the
\* required one in ServiceEngineer = 0 < SystemAdmin = 1 < SuperAdmin = 2.
C7_HasRequiredRole ==
    /\ ServiceEngineer = 0 /\ SystemAdmin = 1 /\ SuperAdmin = 2
    /\ LoggedUserRole \in UserRole \cup {NoRole}
    /\ ret.op = "has_required_role" =>
        ret.ok = (<<LoggedUserRole, ret.arg[1]>> \in Granted)
    /\ \A required \in UserRole :
        has_required_role(LoggedUserRole, required)
            = (LoggedUserRole # NoRole /\ <<LoggedUserRole, required>> \in Granted)

C7_Witness ==
    /\ ret.op = "has_required_role"
    /\ LoggedUserRole = SystemAdmin
    /\ ret.arg = <<SuperAdmin>>
    /\ ret.ok = FALSE

IsLetter(c) == (c >= 65 /\ c <= 90) \/ (c >= 97 /\ c <= 122)

\* a and b are the same text but for the case of their letters
SameIgnoringCase(a, b) ==
    /\ Len(a) = Len(b)
    /\ \A i \in 1..Len(a) :
        \/ a[i] = b[i]
        \/ IsLetter(a[i]) /\ IsLetter(b[i]) /\ (a[i] = b[i] + 32 \/ b[i] = a[i] + 32)

\* C8: after set_logged_user_role(name) the role is the one whose name equals
\* name but for letter case; for any other name no role is set and every
\* has_required_role check is denied.
C8_RoleNameParsing ==
    ret.op = "set_logged_user_role" =>
        LET name == ret.arg[1]
        IN  IF SameIgnoringCase(name, STR_service_engineer) THEN LoggedUserRole = ServiceEngineer
            ELSE IF SameIgnoringCase(name, STR_system_admin) THEN LoggedUserRole = SystemAdmin
            ELSE IF SameIgnoringCase(name, STR_super_admin) THEN LoggedUserRole = SuperAdmin
            ELSE /\ LoggedUserRole = NoRole
                 /\ \A required \in UserRole : ~has_required_role(LoggedUserRole, required)

C8_Witness ==
    /\ ret.op = "set_logged_user_role"
    /\ ret.arg = <<<<97, 100, 109, 105, 110>>>>
    /\ LoggedUserRole = NoRole

(***************************************************************************)
(* Login: C9, C10.                                                         *)
(***************************************************************************)
\* the index of the first row whose decrypted username equals username but
\* for case, 0 if there is none
RECURSIVE MatchedRowFrom(_, _)
MatchedRowFrom(i, username) ==
    IF i > Len(users) THEN 0
    ELSE IF Lower(decrypt_field(cipher_suite, users[i].username).val) = Lower(username) THEN i
    ELSE MatchedRowFrom(i + 1, username)

\* the salted hash of password recomputed from the attributes stored in row
RecomputedHash(row, password) ==
    hashing_hash_password(password,
                          decrypt_field(cipher_suite, row.username).val,
                          decrypt_field(cipher_suite, row.first_name).val,
                          decrypt_field(cipher_suite, row.last_name).val,
                          row.registration_date)

\* C9: for a username that matches a record, login succeeds exactly when the
\* decrypted stored hash equals hashing.hash_password of the supplied password
\* and that record's username, first_name, last_name and registration_date.
C9_LoginVerifiesSaltedHash ==
    (ret.op = "login" /\ MatchedRowFrom(1, ret.arg[1]) # 0) =>
        LET row == users[MatchedRowFrom(1, ret.arg[1])]
            recomputed == RecomputedHash(row, ret.arg[2])
        IN  ret.ok = (/\ recomputed.exc = "none"
                      /\ recomputed.val = decrypt_field(cipher_suite, row.password_hash).val)

\* C10: authenticate_user with the username (in any letter case) and the
\* password of a seeded user whose role is "system_admin" succeeds, and the
\* principal is then SystemAdmin: ServiceEngineer is granted, SuperAdmin is not.
C10_SystemAdminLogin ==
    (/\ ret.op = "authenticate_user"
     /\ \E i \in 1..Len(users_to_add) :
            /\ users_to_add[i].role = STR_system_admin
            /\ Lower(ret.arg[1]) = Lower(users_to_add[i].username)
            /\ ret.arg[2] = users_to_add[i].password
            /\ MatchedRowFrom(1, ret.arg[1]) # 0)
    => /\ ret.ok
       /\ LoggedUserRole = SystemAdmin
       /\ has_required_role(LoggedUserRole, ServiceEngineer)
       /\ ~has_required_role(LoggedUserRole, SuperAdmin)

(***************************************************************************)
(* The audit trail of login: C11 - C14.                                    *)
(***************************************************************************)
\* the records appended to the log since the latest call began, as read_logs
\* returns them
NewRecords ==
    read_logs(log_key_file, SubSeq(log, ret.pre.log_len + 1, Len(log)))

\* the latest call appended exactly one record, with this action and this flag
OneNewRecord(action, flag) ==
    /\ Len(log) = ret.pre.log_len + 1
    /\ Len(NewRecords) = 1
    /\ NewRecords[1][3] = action
    /\ NewRecords[1][5] = flag

\* the session principal is as the latest call found it
PrincipalUnchanged ==
    /\ LoggedUserRole = ret.pre.role
    /\ LoggedUserName = ret.pre.name
    /\ logged_in_username = ret.pre.in_name

\* password verifies against row: the decrypted stored hash equals the salted
\* hash recomputed from the attributes of row
Verifies(row, password) ==
    /\ RecomputedHash(row, password).exc = "none"
    /\ RecomputedHash(row, password).val = decrypt_field(cipher_suite, row.password_hash).val

\* the store answered the latest call, and its username matches a record
MatchedCall(op) ==
    /\ ret.op = op
    /\ ret.db = "ok"
    /\ MatchedRowFrom(1, ret.arg[1]) # 0

\* C11: every call of login has appended exactly one line to the audit log
\* when it returns.
C11_LoginWritesOneRecord ==
    ret.op = "login" => Len(log) = ret.pre.log_len + 1

\* C12: a login whose username matches no stored record returns (False, None)
\* and has appended one record with the action "Login failed (unknown user)"
\* and the flag Yes.
C12_UnknownUserDenied ==
    (ret.op = "login" /\ ret.db = "ok" /\ MatchedRowFrom(1, ret.arg[1]) = 0) =>
        /\ ~ret.ok
        /\ ret.role = None
        /\ OneNewRecord(STR_Login_failed_unknown_user, STR_Yes)

\* C13: an authenticate_user whose username matches a record and whose password
\* does not verify fails, has appended one record with the action "Login
\* failed (wrong password)" and the flag Yes, and leaves the principal as it was.
C13_WrongPasswordDenied ==
    (MatchedCall("authenticate_user")
        /\ ~Verifies(users[MatchedRowFrom(1, ret.arg[1])], ret.arg[2])) =>
        /\ ~ret.ok
        /\ ret.val = None
        /\ OneNewRecord(STR_Login_failed_wrong_password, STR_Yes)
        /\ PrincipalUnchanged

\* a wrong password for a record, in a session whose principal was set before
C13_Witness ==
    /\ MatchedCall("authenticate_user")
    /\ ~Verifies(users[MatchedRowFrom(1, ret.arg[1])], ret.arg[2])
    /\ ret.pre.role = SuperAdmin
    /\ LoggedUserRole = SuperAdmin
    /\ Len(log) = 1

\* C14: an authenticate_user whose username matches a record and whose password
\* verifies succeeds, sets the principal to the identity and the role of that
\* record, and has appended one record with the action "Login successful" and
\* the flag No.
C14_CorrectPasswordAuthorized ==
    (MatchedCall("authenticate_user")
        /\ Verifies(users[MatchedRowFrom(1, ret.arg[1])], ret.arg[2])) =>
        /\ ret.ok
        /\ LoggedUserRole
             = role_map_get(decrypt_field(cipher_suite,
                                          users[MatchedRowFrom(1, ret.arg[1])].role).val)
        /\ logged_in_username
             = decrypt_field(cipher_suite, users[MatchedRowFrom(1, ret.arg[1])].username).val
        /\ OneNewRecord(STR_Login_successful, STR_No)

(***************************************************************************)
(* The session principal: C15.                                             *)
(***************************************************************************)
Principal == <<LoggedUserRole, LoggedUserName>>
NoPrincipal == <<NoRole, None>>

\* until the login of main() has succeeded there is no principal and every
\* has_required_role check is denied
AbsentBeforeLogin ==
    pc \in {"boot", "login"} =>
        /\ Principal = NoPrincipal
        /\ \A required_role \in UserRole : ~has_required_role(LoggedUserRole, required_role)

\* a step that changes the principal is a successful authentication that finds
\* no principal and sets both its role and its username
SetOnceByAuthentication ==
    Principal' # Principal =>
        /\ Principal = NoPrincipal
        /\ ret'.op = "authenticate_user"
        /\ ret'.ok
        /\ LoggedUserRole' # NoRole
        /\ LoggedUserName' # None

\* C15: in a run of main() the principal is absent, and every authorization
\* check denied, until a successful authentication sets it; it is set once,
\* and no later step changes or clears it.
C15_PrincipalSetOnce == []AbsentBeforeLogin /\ [][SetOnceByAuthentication]_vars

\* a menu has read the principal that the login set
C15_Witness ==
    /\ pc = "menu"
    /\ LoggedUserRole = SuperAdmin
    /\ LoggedUserName = STR_super_user
    /\ ret.op = "get_username"
    /\ ret.val = STR_super_user

(***************************************************************************)
(* What a caller of login learns: C16 - C18.                               *)
(***************************************************************************)
\* the latest call was a login or an authenticate_user that failed
FailedCall == ret.op \in {"login", "authenticate_user"} /\ ~ret.ok

\* C16: a failed login returns (False, None), and authenticate_user None, the
\* same as every other failing login on this store returns, whether the
\* username is unknown or the password is wrong.
C16_FailureIsGeneric ==
    FailedCall =>
        /\ ret.role = None
        /\ ret.val = None
        /\ \A username \in LoginUsernames, password \in LoginPasswords :
            \A r \in {login(cipher_suite, users, username, password, "ok")} :
                ~r.is_valid => r.role = ret.role

\* a login failed for a wrong password, and on the same store a login with an
\* unknown username fails too
C16_Witness ==
    /\ ret.op = "login"
    /\ ~ret.ok
    /\ ret.db = "ok"
    /\ OneNewRecord(STR_Login_failed_wrong_password, STR_Yes)
    /\ \E username \in LoginUsernames, password \in LoginPasswords :
        \E r \in {login(cipher_suite, users, username, password, "ok")} :
            /\ ~r.is_valid
            /\ r.events[1].action = STR_Login_failed_unknown_user

\* C17: a login during which the record store fails does not return what a
\* denial returns, (False, None) from login and None from authenticate_user.
C17_StoreErrorIsNotDenial ==
    (ret.op \in {"login", "authenticate_user"} /\ ret.db = "error") =>
        <<ret.ok, ret.role, ret.val>> # <<FALSE, None, None>>

\* C18: login gives the result of the latest call for every username that
\* differs from the supplied one only in letter case, on the same store and
\* with the same password.
C18_LookupIgnoresCase ==
    (ret.op = "login" /\ ret.db = "ok") =>
        \A username \in LoginUsernames :
            Lower(username) = Lower(ret.arg[1]) =>
                \A r \in {login(cipher_suite, users, username, ret.arg[2], "ok")} :
                    r.is_valid = ret.ok /\ r.role = ret.role

(***************************************************************************)
(* Reading the audit log: C19, C20.                                        *)
(***************************************************************************)
\* line i of the file decrypts under the log key
Readable(i) == line_text(log_key_file, log[i]).exc = "none"

\* the records of the log_event calls at the positions idx, as lists of fields
WrittenRecords(idx) == [k \in 1..Len(idx) |-> Split(written[idx[k]].entry)]

\* the positions of the file that satisfy Keep, in append order
Positions(Keep(_)) == SelectSeq([i \in 1..Len(log) |-> i], Keep)

\* read_logs has returned, in append order, the records written to the lines
\* that decrypt under the log key, and nothing for the other lines
ReadsReadableLines ==
    ret.op = "read_logs" => ret.val = WrittenRecords(Positions(Readable))

C20_SuspiciousFilter ==
    ret.op = "get_unread_suspicious_logs" =>
        ret.val = WrittenRecords(Positions(LAMBDA i : Readable(i) /\ written[i].suspicious))

\* of two readable records the one written with suspicious=True was returned;
\* the other, whose actor is "u|Yes", was not
C20_Witness ==
    /\ ret.op = "get_unread_suspicious_logs"
    /\ Len(log) = 2
    /\ Readable(1) /\ Readable(2)
    /\ ~written[1].suspicious
    /\ Split(written[1].entry)[3] = STR_Yes
    /\ written[2].suspicious
    /\ ret.val = <<Split(written[2].entry)>>

(***************************************************************************)
(* The audit log file: C21, C22.                                           *)
(***************************************************************************)
LoggerReads == {"read_logs", "get_unread_suspicious_logs"}

\* C21: the audit log is append-only: log_event leaves every line already in
\* the log unchanged and in place and adds exactly one line at the end;
\* read_logs and get_unread_suspicious_logs leave the log as it is.
C21_AppendOnly ==
    [][/\ ret'.op = "log_event" =>
            /\ Len(log') = Len(log) + 1
            /\ SubSeq(log', 1, Len(log)) = log
       /\ ret'.op \in LoggerReads => log' = log]_vars

\* log_event has added a second line behind a first line that was damaged on
\* disk before, and a read followed
C21_Witness ==
    /\ ret.op \in LoggerReads
    /\ Len(log) = 2
    /\ corrupted = 1
    /\ Len(written) = 2
    /\ log[2] \in {LogLine(log_key_file, iv, written[2].entry) : iv \in IVs}
    /\ log[1] \notin {LogLine(log_key_file, iv, written[1].entry) : iv \in IVs}

\* the record read back from line i has the five fields timestamp, actor,
\* action, detail, flag, with the actor, action and detail of the call
ReadBackAsWritten(i) ==
    /\ Len(Split(written[i].entry)) = 5
    /\ Split(written[i].entry)[2] = written[i].event.username
    /\ Split(written[i].entry)[3] = written[i].event.action
    /\ Split(written[i].entry)[4] = written[i].event.extra_info
    /\ Split(written[i].entry)[5] \in {STR_Yes, STR_No}

\* C22: every record log_event wrote is read back by read_logs as exactly five
\* fields (timestamp, actor, action, detail, flag) whose actor, action and
\* detail are the values written and whose flag is Yes or No.
C22_FiveFieldsReadBack ==
    ret.op = "read_logs" =>
        /\ ret.val = WrittenRecords(Positions(Readable))
        /\ \A i \in 1..Len(log) : Readable(i) => ReadBackAsWritten(i)

(***************************************************************************)
(* The key files: C23.                                                     *)
(***************************************************************************)
\* a key file that exists keeps its content, and the loaded key is the key of
\* the key file
KeyCreatedOnce ==
    /\ key_file # NoKey => key_file' = key_file
    /\ log_key_file # NoKey => log_key_file' = log_key_file
    /\ cipher_suite' # NoKey => cipher_suite' = key_file'

\* the token encrypt_field returned earlier decrypts to its plaintext under the
\* loaded key, and every line log_event wrote decrypts to its entry under the
\* log key
EarlierStillDecrypts ==
    /\ (last_enc.exc = "none" /\ last_enc.arg # None /\ cipher_suite # NoKey) =>
            decrypt_field(cipher_suite, last_enc.val) = Ok(last_enc.arg)
    /\ \A i \in 1..Len(log) :
            i # corrupted => line_text(log_key_file, log[i]) = Ok(written[i].entry)

\* C23: key material is created once and only loaded thereafter: any number of
\* initialize_encryption calls and of log key loads, in one process or across
\* restarts, yields the same key, so every value encrypted earlier still
\* decrypts to its plaintext afterwards.
C23_KeyCreatedOnce == []EarlierStillDecrypts /\ [][KeyCreatedOnce]_vars

\* a value was encrypted, the process restarted and initialize_encryption ran
\* again, and decrypt_field then returned the plaintext of the stored token;
\* the log holds a line
C23_Witness ==
    /\ ret.op = "restart"
    /\ last_enc.exc = "none"
    /\ last_enc.arg \in Plaintexts \ {<<>>}
    /\ ret.val = last_enc.val
    /\ cipher_suite # NoKey
    /\ last_dec.exc = "none"
    /\ last_dec.arg = last_enc.val
    /\ last_dec.val = last_enc.arg
    /\ Len(log) > 0

(***************************************************************************)
(* The menus: C24.                                                         *)
(***************************************************************************)
\* the principal the call found satisfies required_role
Satisfies(required_role) ==
    required_role = NoRole \/ has_required_role(ret.pre.role, required_role)

\* the item of the menu of the execute_menu_selection call that
\* selected_choice names, if any
SelectedItems ==
    {ret.arg[1][i] : i \in {j \in 1..Len(ret.arg[1]) : ret.arg[1][j].key = ret.arg[2]}}

\* the required_role the ask_menu_choice call was given
MenuRequiredRole == ret.arg[3]

\* C24: the menu system never runs a function the principal is not allowed to
\* run: execute_menu_selection does not call the function of an item whose
\* required_role the principal does not satisfy, and ask_menu_choice returns
\* None for a menu whose required_role the principal does not satisfy, for each
\* of the three roles as required_role and also when no principal is set.
C24_MenuRunsOnlyAllowed ==
    /\ (ret.op = "execute_menu_selection" /\ ret.called) =>
            \A item \in SelectedItems : Satisfies(item.required_role)
    /\ (ret.op = "ask_menu_choice" /\ ~Satisfies(MenuRequiredRole)) =>
            ret.val = None


(***************************************************************************)
(* C25. restore_backup(code) changes the users, travellers and scooters    *)
(* tables only when the principal is SuperAdmin, or is SystemAdmin and its *)
(* username equals the backup's restore_allowed_username; for an unknown   *)
(* code, a missing file and every other principal it returns False and     *)
(* leaves the three tables as they are.                                    *)
(***************************************************************************)
\* this step is a call of restore_backup
RestoreStep == ret'.op = "restore_backup" /\ Len(log') > Len(log)

\* the backups row of that code names the principal as the one to restore it
OwnsBackup(backup_code) ==
    \E i \in 1..Len(backups.rows) :
        /\ backups.rows[i].backup_code = backup_code
        /\ backups.rows[i].allowed = LoggedUserName

MayRestore(backup_code) ==
    \/ LoggedUserRole = SuperAdmin
    \/ LoggedUserRole = SystemAdmin /\ OwnsBackup(backup_code)

\* there is a row of that code and the file it names
BackupAtHand(backup_code) ==
    \E i \in 1..Len(backups.rows), j \in 1..Len(backup_files) :
        /\ backups.rows[i].backup_code = backup_code
        /\ backup_files[j].path = backups.rows[i].path

RestoreRefused ==
    /\ ~ret'.ok
    /\ users' = users /\ travellers' = travellers /\ scooters' = scooters

C25_RestoreOnlyAuthorized ==
    [][RestoreStep =>
        /\ MayRestore(ret'.arg[1]) \/ RestoreRefused
        /\ BackupAtHand(ret'.arg[1]) \/ RestoreRefused]_vars

\* a SystemAdmin has restored the backup made for them, and a table changed
C25_Witness ==
    /\ ret.op = "restore_backup"
    /\ ret.ok /\ ret.changed
    /\ ret.pre.role = SystemAdmin
    /\ ret.pre.name = users_to_add[2].username

(***************************************************************************)
(* C26. create_backup called when the principal is below SuperAdmin or     *)
(* absent returns {'success': False, 'error': 'Insufficient permissions'}, *)
(* writes no backup file and no row in the backups table, and appends an   *)
(* audit record flagged suspicious.                                        *)
(***************************************************************************)
\* this step is a call of create_backup
CreateStep == ret'.op = "create_backup" /\ Len(log') > Len(log)

SeededWith(username, password) ==
    \E i \in 1..Len(users_to_add) :
        /\ Lower(users_to_add[i].username) = Lower(username)
        /\ users_to_add[i].password = password

C27_UpdatePassword ==
    ret.op = "update_user_password" =>
        /\ ret.ok <=> SeededWith(ret.arg[1], ret.arg[2])
        /\ ret.ok => ret.changed
        /\ ~ret.ok => ~ret.changed


(***************************************************************************)
(* C28. A bounded prompt loop reads at most max_attempts inputs, returns   *)
(* the accepted value at the first valid input, and after max_attempts     *)
(* invalid inputs returns None and appends one suspicious 'attempts        *)
(* exhausted' audit record; a failed first attempt is logged as not        *)
(* suspicious and every later failed attempt as suspicious.  Stated for    *)
(* ask_menu_choice, whose arguments are <<menu_items, max_attempts,        *)
(* required_role, inputs>>.                                                *)
(***************************************************************************)
\* the positions of the events of that action
EventsOf(events, action) == {i \in 1..Len(events) : events[i].action = action}

C28_PromptLoopBounded ==
    ret.op = "ask_menu_choice" =>
        /\ ret.reads <= ret.arg[2]
        /\ ret.val # None =>
            /\ EventsOf(ret.events, STR_Menu_choice_attempts_exhausted) = {}
            /\ Cardinality(EventsOf(ret.events, STR_Valid_menu_choice_selected)) = 1
        /\ Cardinality(EventsOf(ret.events, STR_Invalid_menu_choice)) = ret.arg[2] =>
            /\ ret.exc = "none" /\ ret.val = None
            /\ Cardinality(EventsOf(ret.events, STR_Menu_choice_attempts_exhausted)) = 1
            /\ \A i \in EventsOf(ret.events, STR_Menu_choice_attempts_exhausted) :
                    ret.events[i].suspicious
        /\ \A i \in EventsOf(ret.events, STR_Invalid_menu_choice) :
            ret.events[i].suspicious
                <=> \E j \in EventsOf(ret.events, STR_Invalid_menu_choice) : j < i


(***************************************************************************)
(* C29. After authenticate_user has succeeded, authorization.get_username()*)
(* returns the authenticated username and appends no 'access without       *)
(* login' audit record.                                                    *)
(***************************************************************************)
C29_IdentitySetOnLogin ==
    ret.op = "get_username" /\ logged_in_username # None =>
        /\ ret.ok
        /\ ret.val = logged_in_username
        /\ Len(log) = ret.pre.log_len


(***************************************************************************)
(* C30. In login's scan over the user store, a record whose stored         *)
(* username cannot be decrypted under the active key is skipped: it leads  *)
(* neither to a successful login nor to a 'wrong password' audit record.   *)
(***************************************************************************)
\* decrypt_data raises for that stored text, or base64 does before it
Undecryptable(stored) ==
    \/ b64decode(Utf8Encode(stored)).exc # "none"
    \/ decrypt_data(cipher_suite, b64decode(Utf8Encode(stored)).val).exc # "none"

\* login was called past the built-in account and the store was read
ScanCall ==
    /\ ret.op = "login"
    /\ ret.db = "ok"
    /\ ~(ret.arg[1] = STR_super_user /\ ret.arg[2] = STR_Admin_123)

C30_UndecryptableSkipped ==
    ScanCall /\ (\A i \in 1..Len(users) : Undecryptable(users[i].username)) =>
        /\ ~ret.ok
        /\ Len(written) > 0
        /\ written[Len(written)].event.action = STR_Login_failed_unknown_user

====
